---- MODULE Spec2Model ----
(***************************************************************************)
(* Model of the hackathon-operations frontend: the hackathon lifecycle     *)
(* workflow (lib/workflows/hackathon-lifecycle), the setup page's status   *)
(* buttons, the route-protection predicates, the edge middleware and the   *)
(* client-side ProtectedRoute component.                                   *)
(***************************************************************************)
EXTENDS Integers, Sequences, FiniteSets, TLC

VARIABLES
    hackathons,     \* store table "hackathons": hackathon_id -> optional row
    cached,         \* per session: the hackathon row the session last fetched
    lastOp,         \* the last lifecycle operation: arguments, calls issued, outcome
    tracks,         \* store table "tracks": sequence of rows in insertion order
    rubrics,        \* store table "rubrics": sequence of rows in insertion order
    setup,          \* the running createHackathonWithSetup invocation
    calls,          \* external API calls issued by createHackathonWithSetup, in order
    classified,     \* the last path classified by the route-protection helpers
    request,        \* the last page request that reached the edge
    response,       \* the edge's response to it
    props,          \* ProtectedRoute props: requiredRole, hackathonId
    enrollment,     \* hackathon_participants: the role stored for (user, hackathon)
    auth,           \* AuthProvider state: isLoading, user
    roleQuery,      \* the useHasRole query: fetchStatus, data
    view,           \* what ProtectedRoute rendered last
    pushed,         \* the last router.push issued by ProtectedRoute's effect
    scores,         \* store table "scores": sequence of rows in insertion order
    participantRoles, \* store table "hackathon_participants": (hackathon, participant) -> role
    judging,        \* per session: the running scoreSubmission invocation
    calculated,     \* the last calculateTotalScore call: arguments and result
    submissions,    \* store table "submissions": sequence of rows in insertion order
    named,          \* the last namespace / document-id helper call: arguments and result
    rubricMutation, \* the useCreateRubric mutation: status, error, data
    participants,   \* store table "participants": sequence of rows in insertion order
    hackathonParticipants, \* store table "hackathon_participants" as rows, in insertion order
    registration,   \* per session: the running createParticipant / registerAndEnroll call
    queryCache,     \* the query client's cache: query key -> optional cached list
    mutations,      \* per mutation: the optimistic-update mutation in flight and its context
    retry,          \* the running retryWithBackoff / query-client retry loop
    handled,        \* the last handleAPIError call: error, diagnostic log, returned APIError
    localStorage,   \* the browser's localStorage: key -> optional value
    cookieJar,      \* the browser's cookies for the site: name -> optional value
    authCall        \* the running authService call: frames of getCurrentUser, requests made

lifecycleVars == <<hackathons, cached, lastOp>>
setupVars == <<tracks, rubrics, setup, calls>>
routeVars == <<classified, request, response>>
clientVars == <<props, enrollment, auth, roleQuery, view, pushed>>
judgingVars == <<scores, participantRoles, judging, calculated>>
namespaceVars == <<submissions, named>>
participantVars == <<participants, hackathonParticipants, registration>>
cacheVars == <<rubricMutation, queryCache, mutations>>
errorVars == <<retry, handled>>
authVars == <<localStorage, cookieJar, authCall>>
serviceVars == <<rubricMutation, participants, hackathonParticipants, registration,
                 queryCache, mutations, retry, handled,
                 localStorage, cookieJar, authCall>>
vars == <<hackathons, cached, lastOp, tracks, rubrics, setup, calls,
          classified, request, response,
          props, enrollment, auth, roleQuery, view, pushed,
          scores, participantRoles, judging, calculated,
          submissions, named,
          rubricMutation, participants, hackathonParticipants, registration,
          queryCache, mutations, retry, handled,
          localStorage, cookieJar, authCall>>

(***************************************************************************)
(* Values                                                                  *)
(***************************************************************************)
\* an optional value (undefined | v) is a sequence of at most one element
None == <<>>
Some(v) == <<v>>
IsSome(o) == Len(o) = 1
Get(o) == o[1]

NoOp == [op |-> "none"]

Statuses == {"DRAFT", "LIVE", "CLOSED"}
HackathonIds == {"h1", "h2"}
Sessions == {"s1", "s2"}

SeqsUpTo(S, n) == UNION {[1..k -> S] : k \in 0..n}

includes(seq, x) == \E i \in 1..Len(seq) : seq[i] = x

(***************************************************************************)
(* hackathon-lifecycle: the status transition table and its queries        *)
(***************************************************************************)
\* a table that also lets a DRAFT hackathon be closed directly
VALID_STATUS_TRANSITIONS_skip ==
    [DRAFT |-> <<"LIVE", "CLOSED">>, LIVE |-> <<"CLOSED">>, CLOSED |-> <<>>]

VALID_STATUS_TRANSITIONS ==
    [DRAFT |-> <<"LIVE">>, LIVE |-> <<"CLOSED">>, CLOSED |-> <<>>]

\* VALID_STATUS_TRANSITIONS[status]: undefined for a key the table lacks
lookupTransitions(status) ==
    IF status \in DOMAIN VALID_STATUS_TRANSITIONS
    THEN Some(VALID_STATUS_TRANSITIONS[status])
    ELSE None

canTransitionStatus(currentStatus, newStatus) ==
    LET validTransitions == lookupTransitions(currentStatus)
    IN  IF IsSome(validTransitions)
        THEN includes(Get(validTransitions), newStatus)
        ELSE FALSE

getValidTransitions(status) ==
    LET validTransitions == lookupTransitions(status)
    IN  IF IsSome(validTransitions) THEN Get(validTransitions) ELSE <<>>

\* validTransitions?.join(', ') || 'none' of the error message
validTransitionsText(validTransitions) ==
    IF ~IsSome(validTransitions) \/ Len(Get(validTransitions)) = 0
    THEN <<"none">>
    ELSE Get(validTransitions)

(***************************************************************************)
(* The external store's hackathons table                                   *)
(***************************************************************************)
HackathonName == <<"a">>

\* updateRows("hackathons", {hackathon_id}, patch): the patch replaces the
\* fields it names in the matching row
updateHackathonRow(table, payload) ==
    [table EXCEPT ![payload.hackathon_id] =
        Some([name |-> Get(@).name, status |-> payload.status])]

\* the guard and payload of transitionHackathonStatus
transitionAllowed(currentStatus, newStatus) ==
    LET validTransitions == lookupTransitions(currentStatus)
    IN  ~(~IsSome(validTransitions) \/ ~includes(Get(validTransitions), newStatus))

\* a payload that also rewrites the name
transitionPayload_extraField(hackathonId, newStatus) ==
    [hackathon_id |-> hackathonId, status |-> newStatus, name |-> HackathonName]

transitionPayload(hackathonId, newStatus) ==
    [hackathon_id |-> hackathonId, status |-> newStatus]

\* the payload the setup page hands to updateHackathon.mutateAsync
statusChangePayload(hackathonId, newStatus) ==
    [hackathon_id |-> hackathonId, status |-> newStatus]

(***************************************************************************)
(* Lifecycle actions                                                       *)
(***************************************************************************)
\* useHackathonById: a session (re)fetches a hackathon row
FetchHackathon(s, h) ==
    /\ IsSome(hackathons[h])
    /\ cached' = [cached EXCEPT ![s] =
            Some([hackathon_id |-> h, status |-> Get(hackathons[h]).status])]
    /\ UNCHANGED <<hackathons, lastOp, setupVars, routeVars, clientVars, judgingVars, namespaceVars, serviceVars>>

\* transitionHackathonStatus(hackathonId, currentStatus, newStatus), called
\* with the status the session last read; updateOk is the store's answer
TransitionHackathonStatus(s, newStatus, updateOk) ==
    /\ IsSome(cached[s])
    /\ LET hackathonId == Get(cached[s]).hackathon_id
           currentStatus == Get(cached[s]).status
           validTransitions == lookupTransitions(currentStatus)
           payload == transitionPayload(hackathonId, newStatus)
           base == [op |-> "transition", session |-> s, hackathonId |-> hackathonId,
                    currentStatus |-> currentStatus, newStatus |-> newStatus,
                    stored |-> Get(hackathons[hackathonId]).status]
       IN  IF ~transitionAllowed(currentStatus, newStatus)
           THEN /\ lastOp' = base @@
                      [issued |-> <<>>, outcome |-> "error", statusCode |-> 400,
                       from |-> currentStatus, to |-> newStatus,
                       valid |-> validTransitionsText(validTransitions)]
                /\ UNCHANGED hackathons
           ELSE IF updateOk
           THEN /\ hackathons' = updateHackathonRow(hackathons, payload)
                /\ lastOp' = base @@
                      [issued |-> <<payload>>, outcome |-> "ok", statusCode |-> 200,
                       from |-> currentStatus, to |-> newStatus, valid |-> <<>>]
           ELSE /\ UNCHANGED hackathons
                /\ lastOp' = base @@
                      [issued |-> <<payload>>, outcome |-> "error", statusCode |-> 500,
                       from |-> currentStatus, to |-> newStatus, valid |-> <<>>]
    /\ UNCHANGED <<cached, setupVars, routeVars, clientVars, judgingVars, namespaceVars, serviceVars>>

\* SetupPage.handleStatusChange(newStatus): one of the three status buttons
HandleStatusChange(s, newStatus, updateOk) ==
    /\ IsSome(cached[s])              \* if (!hackathon) return
    /\ LET hackathonId == Get(cached[s]).hackathon_id
           payload == statusChangePayload(hackathonId, newStatus)
           base == [op |-> "statusButton", session |-> s, hackathonId |-> hackathonId,
                    currentStatus |-> Get(cached[s]).status, newStatus |-> newStatus,
                    stored |-> Get(hackathons[hackathonId]).status,
                    issued |-> <<payload>>, from |-> Get(cached[s]).status,
                    to |-> newStatus, valid |-> <<>>]
       IN  IF updateOk
           THEN /\ hackathons' = updateHackathonRow(hackathons, payload)
                /\ lastOp' = base @@ [outcome |-> "ok", statusCode |-> 200]
           ELSE /\ UNCHANGED hackathons
                /\ lastOp' = base @@ [outcome |-> "error", statusCode |-> 500]
    /\ UNCHANGED <<cached, setupVars, routeVars, clientVars, judgingVars, namespaceVars, serviceVars>>

\* canTransitionStatus(currentStatus, newStatus) as the UI queries it
QueryCanTransition(currentStatus, newStatus) ==
    /\ lastOp' = [op |-> "canTransition", currentStatus |-> currentStatus,
                  newStatus |-> newStatus,
                  result |-> canTransitionStatus(currentStatus, newStatus)]
    /\ UNCHANGED <<hackathons, cached, setupVars, routeVars, clientVars, judgingVars, namespaceVars, serviceVars>>

\* getValidTransitions(status) as the UI queries it
QueryValidTransitions(status) ==
    /\ lastOp' = [op |-> "validTransitions", status |-> status,
                  result |-> getValidTransitions(status)]
    /\ UNCHANGED <<hackathons, cached, setupVars, routeVars, clientVars, judgingVars, namespaceVars, serviceVars>>

InitSetupIdle ==
    /\ tracks = <<>>
    /\ rubrics = <<>>
    /\ setup = [pc |-> "idle"]
    /\ calls = <<>>

\* no request made and no path classified yet
InitRouteIdle ==
    /\ classified = None
    /\ request = None
    /\ response = None

\* no ProtectedRoute mounted
InitClientIdle ==
    /\ props = None
    /\ enrollment = None
    /\ auth = [isLoading |-> TRUE, user |-> None]
    /\ roleQuery = [fetchStatus |-> "idle", data |-> None]
    /\ view = "unmounted"
    /\ pushed = None

\* no score stored, nobody enrolled, no scoreSubmission running
InitJudgingIdle ==
    /\ scores = <<>>
    /\ participantRoles = [h \in HackathonIds, p \in {"j1", "j2"} |-> None]
    /\ judging = [s \in Sessions |-> [pc |-> "idle"]]
    /\ calculated = None
    /\ submissions = <<>>
    /\ named = None

\* no participant registered, nothing cached, no retry loop or auth call
\* running, nobody logged in
InitServiceIdle ==
    /\ rubricMutation = [status |-> "idle", error |-> None, data |-> None]
    /\ participants = <<>>
    /\ hackathonParticipants = <<>>
    /\ registration = [s \in Sessions |-> [pc |-> "idle"]]
    /\ queryCache = <<>>
    /\ mutations = <<>>
    /\ retry = [kind |-> "none", config |-> None, attempt |-> 0, calls |-> 0,
                failures |-> 0, waits |-> <<>>, lastError |-> None, pc |-> "idle"]
    /\ handled = None
    /\ localStorage = [k \in {"auth_token", "refresh_token", "auth_user"} |-> None]
    /\ cookieJar = [k \in {"auth_token"} |-> None]
    /\ authCall = [fn |-> "none", pc |-> "idle", meRequests |-> 0, refreshes |-> 0,
                   refreshFailed |-> FALSE, returned |-> None, thrown |-> None]

\* the store holds hackathons created in DRAFT; no session has fetched yet
InitLifecycle ==
    /\ hackathons = [h \in HackathonIds |->
                        Some([name |-> HackathonName, status |-> "DRAFT"])]
    /\ cached = [s \in Sessions |-> None]
    /\ lastOp = NoOp
    /\ InitSetupIdle
    /\ InitRouteIdle
    /\ InitClientIdle
    /\ InitJudgingIdle
    /\ InitServiceIdle

\* sessions that only go through the guarded workflow function
NextTransitions ==
    \/ \E s \in Sessions, h \in HackathonIds : FetchHackathon(s, h)
    \/ \E s \in Sessions, n \in Statuses, ok \in BOOLEAN :
            TransitionHackathonStatus(s, n, ok)
    \/ \E c \in Statuses, n \in Statuses : QueryCanTransition(c, n)
    \/ \E c \in Statuses : QueryValidTransitions(c)

SpecTransitions == InitLifecycle /\ [][NextTransitions]_vars

\* every application path that writes a status
NextLifecycle ==
    \/ \E s \in Sessions, h \in HackathonIds : FetchHackathon(s, h)
    \/ \E s \in Sessions, n \in Statuses, ok \in BOOLEAN :
            TransitionHackathonStatus(s, n, ok)
    \/ \E s \in Sessions, n \in Statuses, ok \in BOOLEAN :
            HandleStatusChange(s, n, ok)

SpecLifecycle == InitLifecycle /\ [][NextLifecycle]_vars

(***************************************************************************)
(* createHackathonWithSetup: inputs                                        *)
(***************************************************************************)
MaxNameLen == 2
MaxTracks == 2

NameChars == {" ", "a"}
NameStrings == SeqsUpTo(NameChars, MaxNameLen)
TrackNames == {"t1", "t2"}
TrackInputs == {[name |-> t] : t \in TrackNames}

\* JSON text is a sequence of tokens; '' is the empty sequence
EmptyText == <<>>
EmptyObjectText == <<"{", "}">>
CriteriaText == <<"{", "innovation", "}">>
\* criteria arrays: empty, or one criterion {name: 'a', weight: 1, max_score: 10}
\* (a number is the rational [n, d] it stands for)
CriteriaLists ==
    {<<>>, <<[name |-> <<"a">>, weight |-> [n |-> 1, d |-> 1],
              max_score |-> [n |-> 10, d |-> 1]]>>}

\* JSON.stringify: undefined stays undefined, an array becomes its text
JSONstringify(value) ==
    IF IsSome(value) THEN Some(<<"[">> \o Get(value) \o <<"]">>) ELSE None

HackathonInputs ==
    [name : {None} \cup {Some(n) : n \in NameStrings},
     status : {None, Some("LIVE")}]
RubricInputs ==
    [criteria_json : {None, Some(EmptyText), Some(EmptyObjectText), Some(CriteriaText)},
     criteria : {None} \cup {Some(c) : c \in CriteriaLists}]
LifecycleInputs ==
    [hackathon : HackathonInputs,
     tracks : {None} \cup {Some(t) : t \in SeqsUpTo(TrackInputs, MaxTracks)},
     rubric : RubricInputs]

\* String.prototype.trim: strips leading and trailing whitespace
RECURSIVE trimStart(_)
trimStart(str) ==
    IF Len(str) > 0 /\ str[1] = " " THEN trimStart(Tail(str)) ELSE str
RECURSIVE trimEnd(_)
trimEnd(str) ==
    IF Len(str) > 0 /\ str[Len(str)] = " "
    THEN trimEnd(SubSeq(str, 1, Len(str) - 1))
    ELSE str
trim(str) == trimEnd(trimStart(str))

\* the name check without trim()
nameMissing_noTrim(hackathonInput) ==
    ~(IsSome(hackathonInput.name) /\ Len(Get(hackathonInput.name)) > 0)

\* !hackathonInput.name?.trim()
nameMissing(hackathonInput) ==
    ~(IsSome(hackathonInput.name) /\ Len(trim(Get(hackathonInput.name))) > 0)
\* !tracksInput || tracksInput.length === 0
tracksMissing(tracksInput) ==
    ~IsSome(tracksInput) \/ Len(Get(tracksInput)) = 0
\* !rubricInput.criteria_json
criteriaMissing(rubricInput) ==
    ~(IsSome(rubricInput.criteria_json) /\ Len(Get(rubricInput.criteria_json)) > 0)

\* an error that forgets the partial state
createLifecycleError_noPartial(phase, message, canRetry, hackathonId, createdTracks) ==
    [name |-> "HackathonLifecycleError", phase |-> phase, message |-> message,
     canRetry |-> canRetry, hackathonId |-> None, createdTracks |-> None]

createLifecycleError(phase, message, canRetry, hackathonId, createdTracks) ==
    [name |-> "HackathonLifecycleError", phase |-> phase, message |-> message,
     canRetry |-> canRetry, hackathonId |-> hackathonId,
     createdTracks |-> createdTracks]

\* the spread applied after the status: { status: 'DRAFT', ...hackathonInput }
createHackathonPayload_inputWins(hackathonInput) ==
    [name |-> hackathonInput.name,
     status |-> IF IsSome(hackathonInput.status) THEN hackathonInput.status
                ELSE Some("DRAFT")]

\* the argument of createHackathon: { ...hackathonInput, status: 'DRAFT' }
createHackathonPayload(hackathonInput) ==
    [name |-> hackathonInput.name, status |-> Some("DRAFT")]
\* the argument of createTrack: { ...trackInput, hackathon_id }
createTrackPayload(trackInput, hackathonId) ==
    [name |-> trackInput.name, hackathon_id |-> hackathonId]
\* the argument of createRubric: { ...rubricInput, hackathon_id }
createRubricPayload(rubricInput, hackathonId) ==
    [criteria_json |-> rubricInput.criteria_json, criteria |-> rubricInput.criteria,
     hackathon_id |-> hackathonId]

\* the row createRubric inserts
rubricRow(input, rubricId) ==
    [rubric_id |-> rubricId, hackathon_id |-> input.hackathon_id,
     criteria_json |-> JSONstringify(input.criteria)]

(***************************************************************************)
(* createHackathonWithSetup: one action per awaited step                   *)
(***************************************************************************)
Failed(error) ==
    [setup EXCEPT !.pc = "failed", !.error = Some(error)]

\* entry and the three validation checks
StartSetup(input) ==
    /\ setup.pc = "idle"
    /\ LET started == [pc |-> "hackathon_create", input |-> input,
                       hackathonId |-> None, createdTracks |-> <<>>,
                       error |-> None, rubric |-> None]
       IN  setup' =
             IF nameMissing(input.hackathon)
             THEN [started EXCEPT !.pc = "failed", !.error = Some(
                     createLifecycleError("validation", "Hackathon name is required",
                                          FALSE, None, None))]
             ELSE IF tracksMissing(input.tracks)
             THEN [started EXCEPT !.pc = "failed", !.error = Some(
                     createLifecycleError("validation", "At least one track is required",
                                          FALSE, None, None))]
             ELSE IF criteriaMissing(input.rubric)
             THEN [started EXCEPT !.pc = "failed", !.error = Some(
                     createLifecycleError("validation", "Rubric criteria are required",
                                          FALSE, None, None))]
             ELSE started
    /\ UNCHANGED <<lifecycleVars, tracks, rubrics, calls, routeVars, clientVars, judgingVars, namespaceVars, serviceVars>>

\* hackathon = await createHackathon({...hackathonInput, status: 'DRAFT'})
CreateHackathonStep(ok, newId) ==
    /\ setup.pc = "hackathon_create"
    /\ ~IsSome(hackathons[newId])
    /\ LET payload == createHackathonPayload(setup.input.hackathon)
       IN  /\ calls' = Append(calls, [fn |-> "createHackathon", arg |-> payload, ok |-> ok])
           /\ IF ok
              THEN /\ hackathons' = [hackathons EXCEPT ![newId] =
                          Some([name |-> Get(payload.name), status |-> Get(payload.status)])]
                   /\ setup' = [setup EXCEPT !.pc = "tracks_create",
                                             !.hackathonId = Some(newId)]
              ELSE /\ UNCHANGED hackathons
                   /\ setup' = Failed(createLifecycleError("hackathon_create",
                          "Failed to create hackathon", TRUE, None, None))
    /\ UNCHANGED <<cached, lastOp, tracks, rubrics, routeVars, clientVars, judgingVars, namespaceVars, serviceVars>>

\* one iteration of: for (const trackInput of tracksInput) createdTracks.push(await createTrack(..))
CreateTrackStep(ok) ==
    /\ setup.pc = "tracks_create"
    /\ LET tracksInput == Get(setup.input.tracks)
           i == Len(setup.createdTracks) + 1
           hackathonId == Get(setup.hackathonId)
           payload == createTrackPayload(tracksInput[i], hackathonId)
           track == [track_id |-> Len(tracks) + 1, hackathon_id |-> payload.hackathon_id,
                     name |-> payload.name]
       IN  /\ calls' = Append(calls, [fn |-> "createTrack", arg |-> payload, ok |-> ok])
           /\ IF ok
              THEN /\ tracks' = Append(tracks, track)
                   /\ setup' = [setup EXCEPT
                          !.createdTracks = Append(@, track),
                          !.pc = IF i = Len(tracksInput) THEN "rubric_create"
                                 ELSE "tracks_create"]
              ELSE /\ UNCHANGED tracks
                   /\ setup' = Failed(createLifecycleError("tracks_create",
                          "Failed to create tracks", TRUE, Some(hackathonId),
                          Some(setup.createdTracks)))
    /\ UNCHANGED <<lifecycleVars, rubrics, routeVars, clientVars, judgingVars, namespaceVars, serviceVars>>

\* rubric = await createRubric({...rubricInput, hackathon_id})
CreateRubricStep(ok) ==
    /\ setup.pc = "rubric_create"
    /\ LET hackathonId == Get(setup.hackathonId)
           payload == createRubricPayload(setup.input.rubric, hackathonId)
           rubric == rubricRow(payload, Len(rubrics) + 1)
       IN  /\ calls' = Append(calls, [fn |-> "createRubric", arg |-> payload, ok |-> ok])
           /\ IF ok
              THEN /\ rubrics' = Append(rubrics, rubric)
                   /\ setup' = [setup EXCEPT !.pc = "done", !.rubric = Some(rubric)]
              ELSE /\ UNCHANGED rubrics
                   /\ setup' = Failed(createLifecycleError("rubric_create",
                          "Failed to create rubric", TRUE, Some(hackathonId),
                          Some(setup.createdTracks)))
    /\ UNCHANGED <<lifecycleVars, tracks, routeVars, clientVars, judgingVars, namespaceVars, serviceVars>>

\* an empty store and no invocation yet
InitSetup ==
    /\ hackathons = [h \in HackathonIds |-> None]
    /\ cached = [s \in Sessions |-> None]
    /\ lastOp = NoOp
    /\ InitSetupIdle
    /\ InitRouteIdle
    /\ InitClientIdle
    /\ InitJudgingIdle
    /\ InitServiceIdle

NextSetup ==
    \/ \E input \in LifecycleInputs : StartSetup(input)
    \/ \E ok \in BOOLEAN, h \in HackathonIds : CreateHackathonStep(ok, h)
    \/ \E ok \in BOOLEAN : CreateTrackStep(ok)
    \/ \E ok \in BOOLEAN : CreateRubricStep(ok)

SpecSetup == InitSetup /\ [][NextSetup]_vars

(***************************************************************************)
(* Request paths                                                           *)
(*                                                                         *)
(* A pathname is a sequence of tokens.  The vocabulary is prefix-free (no  *)
(* token is a proper prefix of another), so one pathname starts with       *)
(* another as a string exactly when it does so as a token sequence, and a  *)
(* pathname contains '.' exactly when it holds the token ".".              *)
(***************************************************************************)
MaxIdLen == 2

startsWith(pathname, route) ==
    /\ Len(route) <= Len(pathname)
    /\ SubSeq(pathname, 1, Len(route)) = route

\* the first path segment, with and without the characters that extend it
RootSegments ==
    {<<"hackathons">>, <<"hackathons", "x">>, <<"profile">>, <<"profile", "x">>,
     <<"settings">>, <<"api", "-settings">>, <<"api">>, <<"login">>, <<"login", "x">>,
     <<"signup">>, <<"features">>, <<"pricing">>, <<"docs">>, <<"contact">>,
     <<"privacy">>, <<"terms">>, <<"public", "-hackathons">>, <<"public">>,
     <<"_next">>, <<"_next", "/", "static">>, <<"_next", "/", "image">>,
     <<"static">>, <<"favicon", ".", "ico">>, <<"x">>, <<>>}
\* the roots whose sub-paths are explored
DeepRoots ==
    {<<"hackathons">>, <<"hackathons", "x">>, <<"profile">>, <<"settings">>,
     <<"api", "-settings">>, <<"public", "-hackathons">>, <<"x">>}
IdTokens == {"x", "."}
IdSegments == SeqsUpTo(IdTokens, MaxIdLen)
SubSegments ==
    {<<w>> \o sfx :
        w \in {"setup", "participants", "prizes", "judging",
               "teams", "projects", "submissions", "x"},
        sfx \in {<<>>, <<"x">>, <<"/", "x">>}}
Pathnames ==
    {<<"/">> \o r : r \in RootSegments}
    \cup {<<"/">> \o r \o <<"/">> \o id : r \in DeepRoots, id \in IdSegments}
    \cup {<<"/">> \o r \o <<"/">> \o id \o <<"/">> \o sub :
            r \in DeepRoots, id \in IdSegments, sub \in SubSegments}

UserRoles == {"BUILDER", "ORGANIZER", "JUDGE", "MENTOR"}

(***************************************************************************)
(* lib/auth/route-protection                                               *)
(***************************************************************************)
publicRoutes ==
    <<<<"/">>, <<"/", "login">>, <<"/", "signup">>, <<"/", "features">>,
      <<"/", "pricing">>, <<"/", "docs">>, <<"/", "contact">>, <<"/", "privacy">>,
      <<"/", "terms">>, <<"/", "public", "-hackathons">>>>

protectedRoutes == <<<<"/", "hackathons">>, <<"/", "profile">>, <<"/", "settings">>>>

isPublicRoute(pathname) ==
    \E i \in 1..Len(publicRoutes) :
        IF publicRoutes[i] = <<"/">>
        THEN pathname = <<"/">>
        ELSE startsWith(pathname, publicRoutes[i])

isProtectedRoute(pathname) ==
    \E i \in 1..Len(protectedRoutes) : startsWith(pathname, protectedRoutes[i])

\* pathname.match(/^\/hackathons\/[^/]+\/<segment>/)
matchesHackathonSegment(pathname, segment) ==
    /\ startsWith(pathname, <<"/", "hackathons", "/">>)
    /\ \E k \in 5..(Len(pathname) - 1) :
          /\ \A j \in 4..(k - 1) : pathname[j] # "/"
          /\ pathname[k] = "/"
          /\ pathname[k + 1] = segment

\* a classification that also lets organizers judge
getRequiredRoles_organizerJudges(pathname) ==
    IF \/ matchesHackathonSegment(pathname, "setup")
       \/ matchesHackathonSegment(pathname, "participants")
       \/ matchesHackathonSegment(pathname, "prizes")
       \/ startsWith(pathname, <<"/", "api", "-settings">>)
    THEN Some(<<"ORGANIZER">>)
    ELSE IF matchesHackathonSegment(pathname, "judging")
    THEN Some(<<"JUDGE", "ORGANIZER">>)
    ELSE IF \/ matchesHackathonSegment(pathname, "teams")
            \/ matchesHackathonSegment(pathname, "projects")
            \/ matchesHackathonSegment(pathname, "submissions")
    THEN Some(<<"BUILDER", "ORGANIZER">>)
    ELSE None

getRequiredRoles(pathname) ==
    IF \/ matchesHackathonSegment(pathname, "setup")
       \/ matchesHackathonSegment(pathname, "participants")
       \/ matchesHackathonSegment(pathname, "prizes")
       \/ startsWith(pathname, <<"/", "api", "-settings">>)
    THEN Some(<<"ORGANIZER">>)
    ELSE IF matchesHackathonSegment(pathname, "judging")
    THEN Some(<<"JUDGE">>)
    ELSE IF \/ matchesHackathonSegment(pathname, "teams")
            \/ matchesHackathonSegment(pathname, "projects")
            \/ matchesHackathonSegment(pathname, "submissions")
    THEN Some(<<"BUILDER", "ORGANIZER">>)
    ELSE None

hasAccess(userRole, pathname) ==
    LET requiredRoles == getRequiredRoles(pathname)
    IN  IF ~IsSome(requiredRoles)
        THEN TRUE
        ELSE includes(Get(requiredRoles), userRole)

\* the helpers applied to one pathname and one role; they are pure, so one
\* application per behaviour covers every input
Classify(pathname, userRole) ==
    /\ ~IsSome(classified)
    /\ classified' = Some([pathname |-> pathname, userRole |-> userRole,
                           isPublic |-> isPublicRoute(pathname),
                           isProtected |-> isProtectedRoute(pathname),
                           requiredRoles |-> getRequiredRoles(pathname),
                           hasAccess |-> hasAccess(userRole, pathname)])
    /\ UNCHANGED <<lifecycleVars, setupVars, request, response, clientVars, judgingVars, namespaceVars, serviceVars>>

InitRouteGuard == InitLifecycle

NextRouteGuard ==
    \E pathname \in Pathnames, userRole \in UserRoles : Classify(pathname, userRole)

SpecRouteGuard == InitRouteGuard /\ [][NextRouteGuard]_vars

(***************************************************************************)
(* middleware.ts: the edge phase                                           *)
(***************************************************************************)
PUBLIC_ROUTES ==
    <<<<"/">>, <<"/", "login">>, <<"/", "signup">>, <<"/", "features">>,
      <<"/", "pricing">>, <<"/", "docs">>, <<"/", "contact">>, <<"/", "privacy">>,
      <<"/", "terms">>, <<"/", "public", "-hackathons">>>>
PROTECTED_ROUTES == <<<<"/", "hackathons">>, <<"/", "profile">>, <<"/", "settings">>>>
ORGANIZER_ROUTES == <<<<"/", "api", "-settings">>>>

\* strings other than pathnames are token sequences too; '' is <<>>
truthy_onlyKnown(optionalString) ==
    IsSome(optionalString) /\ Get(optionalString) = <<"tokA">>

truthy(optionalString) == IsSome(optionalString) /\ Len(Get(optionalString)) > 0

\* String.prototype.replace(pattern, ''): drops the first occurrence
RECURSIVE removeFirst(_, _)
removeFirst(str, pattern) ==
    IF str = <<>> THEN <<>>
    ELSE IF Head(str) = pattern THEN Tail(str)
    ELSE <<Head(str)>> \o removeFirst(Tail(str), pattern)

CookieValues == {None, Some(<<>>), Some(<<"tokA">>)}
AuthorizationHeaders ==
    {None, Some(<<"Bearer ", "tokA">>), Some(<<"Bearer ">>), Some(<<"tokA">>),
     Some(<<"Basic ", "cred">>)}
Requests ==
    [pathname : Pathnames, cookie : CookieValues, authorization : AuthorizationHeaders]

mwIsPublicRoute(pathname) ==
    \E i \in 1..Len(PUBLIC_ROUTES) :
        IF PUBLIC_ROUTES[i] = <<"/">>
        THEN pathname = <<"/">>
        ELSE startsWith(pathname, PUBLIC_ROUTES[i])

mwIsProtectedRoute(pathname) ==
    \E i \in 1..Len(PROTECTED_ROUTES) : startsWith(pathname, PROTECTED_ROUTES[i])

requiresOrganizer(pathname) ==
    \E i \in 1..Len(ORGANIZER_ROUTES) : startsWith(pathname, ORGANIZER_ROUTES[i])

requiresJudge(pathname) == matchesHackathonSegment(pathname, "judging")

requiresOrganizerForHackathon(pathname) ==
    \E segment \in {"setup", "participants", "prizes"} :
        matchesHackathonSegment(pathname, segment)

\* the static-file and API bypass at the top of middleware()
bypassesMiddleware(pathname) ==
    \/ startsWith(pathname, <<"/", "_next">>)
    \/ startsWith(pathname, <<"/", "api">>)
    \/ startsWith(pathname, <<"/", "static">>)
    \/ includes(pathname, ".")

\* cookies.get('auth_token')?.value || headers.get('authorization')?.replace('Bearer ', '')
requestToken(req) ==
    IF truthy(req.cookie) THEN req.cookie
    ELSE IF IsSome(req.authorization)
         THEN Some(removeFirst(Get(req.authorization), "Bearer "))
         ELSE None

NextResponse_next == [kind |-> "next", to |-> <<>>, redirect |-> <<>>]
NextResponse_redirect(pathname) ==
    [kind |-> "redirect", to |-> <<"/", "login">>, redirect |-> pathname]

middleware(req) ==
    LET pathname == req.pathname
        token == requestToken(req)
    IN  IF bypassesMiddleware(pathname) THEN NextResponse_next
        ELSE IF mwIsPublicRoute(pathname) THEN NextResponse_next
        ELSE IF /\ ~truthy(token)
                /\ \/ mwIsProtectedRoute(pathname)
                   \/ requiresOrganizer(pathname)
                   \/ requiresJudge(pathname)
                   \/ requiresOrganizerForHackathon(pathname)
        THEN NextResponse_redirect(pathname)
        ELSE NextResponse_next

\* config.matcher: '/((?!_next/static|_next/image|favicon.ico|.*\..*|public).*)'
matcherMatches(pathname) ==
    /\ Len(pathname) >= 1
    /\ pathname[1] = "/"
    /\ LET rest == Tail(pathname)
       IN  /\ ~startsWith(rest, <<"_next", "/", "static">>)
           /\ ~startsWith(rest, <<"_next", "/", "image">>)
           /\ ~(/\ Len(rest) >= 3 
                /\ rest[1] = "favicon"
                /\ rest[2] \in {"/", ".", "x"}
                /\ rest[3] = "ico")
           /\ ~includes(rest, ".")
           /\ ~startsWith(rest, <<"public">>)

\* a page request reaches the edge: the middleware runs when the matcher
\* selects the path, and otherwise the request goes straight to the page.
\* The middleware keeps no state, so one request per behaviour covers it.
EdgeRequest(req) ==
    /\ ~IsSome(request)
    /\ request' = Some(req)
    /\ response' = Some(IF matcherMatches(req.pathname)
                        THEN middleware(req)
                        ELSE NextResponse_next)
    /\ UNCHANGED <<lifecycleVars, setupVars, classified, clientVars, judgingVars, namespaceVars, serviceVars>>

InitMiddleware == InitLifecycle

NextMiddleware == \E req \in Requests : EdgeRequest(req)

SpecMiddleware == InitMiddleware /\ [][NextMiddleware]_vars

(***************************************************************************)
(* components/ProtectedRoute with AuthProvider and useHasRole              *)
(***************************************************************************)
UserIds == {"u1"}
RouteProps ==
    [requiredRole : {None} \cup {Some(r) : r \in UserRoles},
     hackathonId : {None} \cup {Some(h) : h \in HackathonIds}]
Enrollments == {None} \cup {Some(r) : r \in UserRoles}

isAuthenticated(authState) == IsSome(authState.user)       \* !!user

\* the role the query asks about: requiredRole || 'BUILDER'
queriedRole(p) == IF IsSome(p.requiredRole) THEN Get(p.requiredRole) ELSE "BUILDER"

\* useHasRole's enabled flag: !!participantId && !!hackathonId
roleQueryEnabled(p, authState) == IsSome(authState.user) /\ IsSome(p.hackathonId)

\* the query result the component observes: a disabled query has a key that
\* was never fetched, so it has no data and is not loading
observedHasRole(p, authState, query) ==
    IF roleQueryEnabled(p, authState) THEN query.data ELSE None
roleLoading(p, authState, query) ==
    /\ roleQueryEnabled(p, authState)
    /\ query.fetchStatus = "fetching"
    /\ ~IsSome(query.data)

\* hasRole(participantId, hackathonId, role): a row with that role exists;
\* every failure is caught and answered false
hasRole(enrolled, role, queryOk) == queryOk /\ enrolled = Some(role)

\* what ProtectedRoute returns
protectedRouteRender(p, authState, query) ==
    LET hasRoleData == observedHasRole(p, authState, query)
        isLoading == authState.isLoading
                     \/ (IsSome(p.requiredRole) /\ roleLoading(p, authState, query))
    IN  IF isLoading THEN "loading"
        ELSE IF ~isAuthenticated(authState) THEN "null"
        ELSE IF /\ IsSome(p.requiredRole)
                /\ IsSome(p.hackathonId)
                /\ ~(hasRoleData = Some(TRUE))
        THEN "null"
        ELSE "children"

\* the router.push of ProtectedRoute's effect, if it issues one
protectedRouteEffect(p, authState, query) ==
    LET hasRoleData == observedHasRole(p, authState, query)
    IN  IF ~authState.isLoading /\ ~isAuthenticated(authState)
        THEN Some([to |-> "/login", redirect |-> "pathname"])
        ELSE IF /\ ~authState.isLoading
                /\ ~roleLoading(p, authState, query)
                /\ IsSome(p.requiredRole)
                /\ IsSome(p.hackathonId)
                /\ ~(hasRoleData = Some(TRUE))
        THEN Some([to |-> "/unauthorized", redirect |-> ""])
        ELSE None

\* the query starts fetching once it is enabled and has no data
startFetch(p, authState, query) ==
    IF roleQueryEnabled(p, authState) /\ ~IsSome(query.data)
    THEN [query EXCEPT !.fetchStatus = "fetching"]
    ELSE query

\* React re-renders the component and runs its effect after a state change
Rerender ==
    /\ view' = protectedRouteRender(Get(props'), auth', roleQuery')
    /\ pushed' = protectedRouteEffect(Get(props'), auth', roleQuery')

\* the component mounts under an AuthProvider that is still initializing
Mount(p, enrolled) ==
    /\ view = "unmounted"
    /\ props' = Some(p)
    /\ enrollment' = enrolled
    /\ UNCHANGED <<auth, roleQuery>>
    /\ Rerender
    /\ UNCHANGED <<lifecycleVars, setupVars, routeVars, judgingVars, namespaceVars, serviceVars>>

\* initializeAuth: setUser(storedUser) while isLoading is still true
AuthStoredUser(u) ==
    /\ view # "unmounted"
    /\ auth.isLoading /\ ~IsSome(auth.user)
    /\ auth' = [auth EXCEPT !.user = Some(u)]
    /\ roleQuery' = startFetch(Get(props), auth', roleQuery)
    /\ UNCHANGED <<props, enrollment, lifecycleVars, setupVars, routeVars, judgingVars, namespaceVars, serviceVars>>
    /\ Rerender

\* initializeAuth / login / signup / logout finish: setUser(..), setIsLoading(false)
AuthSettled(user) ==
    /\ view # "unmounted"
    /\ auth.isLoading
    /\ auth' = [isLoading |-> FALSE, user |-> user]
    /\ roleQuery' = startFetch(Get(props), auth', roleQuery)
    /\ UNCHANGED <<props, enrollment, lifecycleVars, setupVars, routeVars, judgingVars, namespaceVars, serviceVars>>
    /\ Rerender

\* login / signup / logout begin: setIsLoading(true)
AuthCallStarts ==
    /\ view # "unmounted"
    /\ ~auth.isLoading
    /\ auth' = [auth EXCEPT !.isLoading = TRUE]
    /\ UNCHANGED roleQuery
    /\ UNCHANGED <<props, enrollment, lifecycleVars, setupVars, routeVars, judgingVars, namespaceVars, serviceVars>>
    /\ Rerender

\* the useHasRole queryFn resolves
RoleFetchDone(queryOk) ==
    /\ view # "unmounted"
    /\ roleQueryEnabled(Get(props), auth)
    /\ roleQuery.fetchStatus = "fetching"
    /\ roleQuery' = [fetchStatus |-> "idle",
                     data |-> Some(hasRole(enrollment, queriedRole(Get(props)), queryOk))]
    /\ UNCHANGED auth
    /\ UNCHANGED <<props, enrollment, lifecycleVars, setupVars, routeVars, judgingVars, namespaceVars, serviceVars>>
    /\ Rerender

InitProtectedRoute == InitLifecycle

NextProtectedRoute ==
    \/ \E p \in RouteProps, e \in Enrollments : Mount(p, e)
    \/ \E u \in UserIds : AuthStoredUser(u)
    \/ \E user \in {None} \cup {Some(u) : u \in UserIds} : AuthSettled(user)
    \/ AuthCallStarts
    \/ \E ok \in BOOLEAN : RoleFetchDone(ok)

SpecProtectedRoute == InitProtectedRoute /\ [][NextProtectedRoute]_vars

(***************************************************************************)
(* Numbers.  A JavaScript number is modelled by the exact rational it      *)
(* stands for: [n |-> numerator, d |-> denominator], d > 0, in lowest      *)
(* terms.  Rounding of the floating-point operations is not modelled.      *)
(***************************************************************************)
Abs(i) == IF i < 0 THEN -i ELSE i

RECURSIVE GCD(_, _)
GCD(a, b) == IF b = 0 THEN a ELSE GCD(b, a % b)

Rat(n, d) ==
    LET g == GCD(Abs(n), d)
    IN  [n |-> n \div g, d |-> d \div g]

Num(i) == Rat(i, 1)
RatAdd(a, b) == Rat(a.n * b.d + b.n * a.d, a.d * b.d)
RatMul(a, b) == Rat(a.n * b.n, a.d * b.d)
\* a / b for b > 0
RatDiv(a, b) == Rat(a.n * b.d, a.d * b.n)
RatLess(a, b) == a.n * b.d < b.n * a.d

(***************************************************************************)
(* JSON text.  A text is a sequence of tokens, each token a record; an     *)
(* object is a function from its keys to its values.  Keys are written in  *)
(* the order of CriterionOrder.                                            *)
(***************************************************************************)
CriterionNames == {"innovation", "design"}
CriterionOrder == <<"innovation", "design">>

OpenBrace == [t |-> "{"]
CloseBrace == [t |-> "}"]
NullToken == [t |-> "null"]
WordToken == [t |-> "invalid-json"]
EntryToken(name, value) == [t |-> "entry", name |-> name, value |-> value]

\* Object.keys(obj): the object's keys in order
RECURSIVE keysFrom(_, _)
keysFrom(obj, i) ==
    IF i > Len(CriterionOrder) THEN <<>>
    ELSE (IF CriterionOrder[i] \in DOMAIN obj THEN <<CriterionOrder[i]>> ELSE <<>>)
         \o keysFrom(obj, i + 1)

ObjectKeys(obj) == keysFrom(obj, 1)

\* JSON.stringify of an object
JSONstringifyObject(obj) ==
    LET keys == ObjectKeys(obj)
    IN  <<OpenBrace>>
        \o [i \in 1..Len(keys) |-> EntryToken(keys[i], obj[keys[i]])]
        \o <<CloseBrace>>

\* the texts JSON.parse accepts: null, or a brace-enclosed list of entries
\* with distinct keys
IsObjectText(text) ==
    /\ Len(text) >= 2
    /\ text[1] = OpenBrace
    /\ text[Len(text)] = CloseBrace
    /\ \A i \in 2..(Len(text) - 1) : text[i].t = "entry"
    /\ \A i, j \in 2..(Len(text) - 1) : text[i].name = text[j].name => i = j

JSONparseThrows(text) ==
    \/ ~IsSome(text)
    \/ (Get(text) # <<NullToken>> /\ ~IsObjectText(Get(text)))

\* JSON.parse of a text it accepts: [null |-> TRUE] or [null |-> FALSE, obj |-> ...]
JSONparse(text) ==
    IF Get(text) = <<NullToken>>
    THEN [null |-> TRUE]
    ELSE LET body == SubSeq(Get(text), 2, Len(Get(text)) - 1)
             names == {body[i].name : i \in 1..Len(body)}
         IN  [null |-> FALSE,
              obj |-> [k \in names |->
                         body[CHOOSE i \in 1..Len(body) : body[i].name = k].value]]

(***************************************************************************)
(* lib/workflows/judging: inputs and the stored rubrics                    *)
(***************************************************************************)
MaxScoreValue == 2
MaxAttempts == 2

JudgeIds == {"j1", "j2"}
SubmissionIds == {"sub1"}

\* identifiers as the caller may pass them: undefined, '', blank, or an id
IdStrings(ids) == {None, Some(<<>>), Some(<<" ">>)} \cup {Some(<<i>>) : i \in ids}

\* a criterion definition {weight: tenths / 10, max_score}
Criterion(tenths, max_score) == [weight |-> Rat(tenths, 10), max_score |-> Num(max_score)]

\* criteria objects a rubric may hold: max_score > 0, weight >= 0
CriteriaObjects ==
    {<<>>,
     [c \in {"innovation"} |-> Criterion(10, MaxScoreValue)],
     [c \in {"innovation"} |-> Criterion(0, 1)],
     [c \in CriterionNames |->
         IF c = "innovation" THEN Criterion(4, MaxScoreValue) ELSE Criterion(6, 1)]}

\* criteria_json as stored: absent, not JSON, JSON null, or a criteria object
CriteriaJsonTexts ==
    {None, Some(<<WordToken>>), Some(<<OpenBrace>>), Some(<<NullToken>>)}
        \cup {Some(JSONstringifyObject(c)) : c \in CriteriaObjects}

\* the rubrics table the judging workflow reads: at most one rubric per
\* hackathon, h2's stored before h1's
RubricTables ==
    {<<>>}
    \cup {<<[rubric_id |-> 1, hackathon_id |-> "h1", criteria_json |-> t]>> :
            t \in CriteriaJsonTexts}
    \cup {<<[rubric_id |-> 1, hackathon_id |-> "h2", criteria_json |-> Some(<<NullToken>>)],
            [rubric_id |-> 2, hackathon_id |-> "h1",
             criteria_json |-> Some(JSONstringifyObject(
                 [c \in {"innovation"} |-> Criterion(10, MaxScoreValue)]))]>>}

ScoreValues == {Num(i) : i \in (-1)..(MaxScoreValue + 1)}

\* criteriaScores: undefined or a map from some criterion names to numbers
CriteriaScoreMaps ==
    {None} \cup {Some(m) : m \in UNION {[names -> ScoreValues] : names \in SUBSET CriterionNames}}

JudgingInputs ==
    [hackathonId : {""} \cup HackathonIds,
     submissionId : IdStrings(SubmissionIds),
     judgeId : IdStrings(JudgeIds),
     criteriaScores : CriteriaScoreMaps,
     feedback : {None, Some("Great work!")}]

(***************************************************************************)
(* lib/api/rubrics listRubrics and lib/api/scores createScore              *)
(***************************************************************************)
\* zeroDBClient.queryRows(table, {filter, limit}): the rows matching the
\* filter, in stored order, at most limit of them
queryRows(table, filterOn, hackathon_id, limit) ==
    LET matching == SelectSeq(table, LAMBDA row : ~filterOn \/ row.hackathon_id = hackathon_id)
    IN  SubSeq(matching, 1, IF Len(matching) < limit THEN Len(matching) ELSE limit)

\* listRubrics(params): [throws |-> TRUE] or [throws |-> FALSE, rows |-> ...];
\* an empty hackathon_id is falsy and adds no filter
listRubrics(params, queryOk) ==
    IF ~queryOk
    THEN [throws |-> TRUE, error |-> "Failed to list rubrics"]
    ELSE [throws |-> FALSE,
          rows |-> queryRows(rubrics, params.hackathon_id # "", params.hackathon_id,
                             IF params.limit # 0 THEN params.limit ELSE 100)]

\* scores.ts calculateTotalScore(criterionScores): the plain sum
sumCriterionScores(criterionScores) ==
    LET RECURSIVE sumFrom(_)
        sumFrom(i) == IF i > Len(criterionScores) THEN Num(0)
                      ELSE RatAdd(criterionScores[i].score, sumFrom(i + 1))
    IN  sumFrom(1)

\* createScore reads input.criterion_scores.reduce: a TypeError when the
\* input has no criterion_scores
createScoreThrowsTypeError(input) == "criterion_scores" \notin DOMAIN input

\* the row createScore builds: fields the input lacks are undefined
scoreRow(input, scoreId) ==
    [score_id |-> scoreId,
     submission_id |-> input.submission_id,
     judge_participant_id |->
        IF "judge_participant_id" \in DOMAIN input
        THEN Some(input.judge_participant_id) ELSE None,
     score_json |-> input.criterion_scores,
     total_score |-> sumCriterionScores(input.criterion_scores),
     feedback |-> input.feedback]

\* createScore(input): throws before the insert on a TypeError, after it
\* when the store refuses the row
createScore(input, insertOk) ==
    IF createScoreThrowsTypeError(input)
    THEN [throws |-> TRUE, inserted |-> FALSE,
          error |-> "TypeError: Cannot read properties of undefined (reading 'reduce')"]
    ELSE IF ~insertOk
    THEN [throws |-> TRUE, inserted |-> FALSE, error |-> "Failed to create score"]
    ELSE [throws |-> FALSE, inserted |-> TRUE,
          score |-> scoreRow(input, Len(scores) + 1)]

(***************************************************************************)
(* lib/workflows/judging: scoreSubmission and calculateTotalScore          *)
(***************************************************************************)
createJudgingError(phase, message, canRetry, submissionId) ==
    [name |-> "JudgingError", phase |-> Some(phase), message |-> message,
     canRetry |-> Some(canRetry), submissionId |-> submissionId]

\* an exception thrown by the runtime, not built by createJudgingError
TypeError(message) ==
    [name |-> "TypeError", phase |-> None, message |-> message,
     canRetry |-> None, submissionId |-> None]

idMissing_noTrim(id) == ~IsSome(id) \/ Get(id) = <<>>

\* !id?.trim()
idMissing(id) == ~IsSome(id) \/ trim(Get(id)) = <<>>

\* !criteriaScores || Object.keys(criteriaScores).length === 0
criteriaScoresMissing(criteriaScores) ==
    ~IsSome(criteriaScores) \/ Len(ObjectKeys(Get(criteriaScores))) = 0

scoreOutOfRange_noUpperBound(score, maxScore) == RatLess(score, Num(0))

\* score < 0 || score > maxScore
scoreOutOfRange(score, maxScore) ==
    RatLess(score, Num(0)) \/ RatLess(maxScore, score)

\* the for loop over Object.keys(criteria): the first criterion that has no
\* score or whose score is out of range, if any
RECURSIVE firstRejected(_, _, _)
firstRejected(keys, criteria, criteriaScores) ==
    IF keys = <<>> THEN None
    ELSE LET criterionName == Head(keys)
         IN  IF criterionName \notin DOMAIN criteriaScores
             THEN Some([criterion |-> criterionName, why |-> "missing"])
             ELSE LET score == criteriaScores[criterionName]
                      maxScore == criteria[criterionName].max_score
                  IN  IF scoreOutOfRange(score, maxScore)
                      THEN Some([criterion |-> criterionName, why |-> "range"])
                      ELSE firstRejected(Tail(keys), criteria, criteriaScores)

\* calculateTotalScore(criteriaScores, criteria)
calculateTotalScore_unnormalized(criteriaScores, criteria) ==
    LET entries == ObjectKeys(criteriaScores)
        RECURSIVE weightedSumFrom(_)
        weightedSumFrom(i) ==
            IF i > Len(entries) THEN Num(0)
            ELSE IF entries[i] \in DOMAIN criteria
                 THEN RatAdd(RatMul(criteriaScores[entries[i]],
                                    criteria[entries[i]].weight),
                             weightedSumFrom(i + 1))
                 ELSE weightedSumFrom(i + 1)
        RECURSIVE totalWeightFrom(_)
        totalWeightFrom(i) ==
            IF i > Len(entries) THEN Num(0)
            ELSE IF entries[i] \in DOMAIN criteria
                 THEN RatAdd(criteria[entries[i]].weight, totalWeightFrom(i + 1))
                 ELSE totalWeightFrom(i + 1)
    IN  IF totalWeightFrom(1) = Num(0) THEN Num(0)
        ELSE RatMul(RatDiv(weightedSumFrom(1), totalWeightFrom(1)), Num(100))

calculateTotalScore(criteriaScores, criteria) ==
    LET entries == ObjectKeys(criteriaScores)
        RECURSIVE weightedSumFrom(_)
        weightedSumFrom(i) ==
            IF i > Len(entries) THEN Num(0)
            ELSE IF entries[i] \in DOMAIN criteria
                 THEN LET criterion == criteria[entries[i]]
                          normalizedScore ==
                              RatDiv(criteriaScores[entries[i]], criterion.max_score)
                      IN  RatAdd(RatMul(normalizedScore, criterion.weight),
                                 weightedSumFrom(i + 1))
                 ELSE weightedSumFrom(i + 1)
        RECURSIVE totalWeightFrom(_)
        totalWeightFrom(i) ==
            IF i > Len(entries) THEN Num(0)
            ELSE IF entries[i] \in DOMAIN criteria
                 THEN RatAdd(criteria[entries[i]].weight, totalWeightFrom(i + 1))
                 ELSE totalWeightFrom(i + 1)
        weightedSum == weightedSumFrom(1)
        totalWeight == totalWeightFrom(1)
    IN  IF totalWeight = Num(0) THEN Num(0)
        ELSE RatMul(RatDiv(weightedSum, totalWeight), Num(100))

\* the argument scoreSubmission passes to createScore
createScoreArgument(input, totalScore) ==
    [submission_id |-> Get(input.submissionId),
     judge_id |-> Get(input.judgeId),
     score_json |-> JSONstringifyObject(Get(input.criteriaScores)),
     total_score |-> totalScore,
     feedback |-> input.feedback]

(***************************************************************************)
(* scoreSubmission: one action per awaited step                            *)
(***************************************************************************)
Rejected(invocation, error) ==
    [invocation EXCEPT !.pc = "failed", !.error = Some(error)]

\* entry and the three input checks, then the listRubrics call is issued
enterScoring(input, attempt) ==
    LET started == [pc |-> "rubric_fetch", input |-> input, attempt |-> attempt,
                    calls |-> <<>>, rubric |-> None, totalScore |-> None,
                    error |-> None, score |-> None]
    IN  IF idMissing(input.submissionId)
        THEN Rejected(started, createJudgingError("validation",
                 "Submission ID is required", FALSE, None))
        ELSE IF idMissing(input.judgeId)
        THEN Rejected(started, createJudgingError("validation",
                 "Judge ID is required", FALSE, None))
        ELSE IF criteriaScoresMissing(input.criteriaScores)
        THEN Rejected(started, createJudgingError("validation",
                 "At least one criterion score is required", FALSE, None))
        ELSE started

StartScoring(s, input) ==
    /\ judging[s].pc = "idle"
    /\ judging' = [judging EXCEPT ![s] = enterScoring(input, 1)]
    /\ UNCHANGED <<serviceVars, lifecycleVars, setupVars, routeVars, clientVars, namespaceVars,
                   scores, participantRoles, calculated>>

\* the caller calls again with the same input after an error flagged canRetry
RetryScoring(s) ==
    /\ judging[s].pc = "failed"
    /\ Get(judging[s].error).canRetry = Some(TRUE)
    /\ judging[s].attempt < MaxAttempts
    /\ judging' = [judging EXCEPT ![s] =
                      enterScoring(judging[s].input, judging[s].attempt + 1)]
    /\ UNCHANGED <<serviceVars, lifecycleVars, setupVars, routeVars, clientVars, namespaceVars,
                   scores, participantRoles, calculated>>

\* listRubrics settles; on a rubric the criteria are parsed and checked, the
\* total is computed and createScore is called
afterListRubrics(invocation, queryOk) ==
    LET input == invocation.input
        params == [hackathon_id |-> input.hackathonId, limit |-> 1]
        listed == listRubrics(params, queryOk)
        called == [invocation EXCEPT !.calls =
                      Append(@, [fn |-> "listRubrics", arg |-> params, ok |-> queryOk])]
    IN  IF listed.throws
        THEN Rejected(called, createJudgingError("rubric_fetch",
                 "Failed to fetch rubric: Failed to list rubrics", TRUE, None))
        ELSE IF Len(listed.rows) = 0
        THEN Rejected(called, createJudgingError("rubric_fetch",
                 "Failed to fetch rubric: No rubric found for this hackathon", TRUE, None))
        ELSE LET rubric == listed.rows[1]
                 fetched == [called EXCEPT !.rubric = Some(rubric)]
             IN  IF JSONparseThrows(rubric.criteria_json)
                 THEN Rejected(fetched, createJudgingError("validation",
                          "Invalid rubric criteria format", FALSE, input.submissionId))
                 ELSE IF JSONparse(rubric.criteria_json).null
                 THEN Rejected(fetched,
                          TypeError("Cannot convert undefined or null to object"))
                 ELSE LET criteria == JSONparse(rubric.criteria_json).obj
                          criteriaScores == Get(input.criteriaScores)
                          rejected == firstRejected(ObjectKeys(criteria), criteria,
                                                    criteriaScores)
                      IN  IF IsSome(rejected)
                          THEN Rejected(fetched, createJudgingError("validation",
                                   IF Get(rejected).why = "missing"
                                   THEN "Missing score for criterion"
                                   ELSE "Score must be between 0 and max_score",
                                   FALSE, input.submissionId))
                          ELSE [fetched EXCEPT
                                  !.pc = "score_create",
                                  !.totalScore =
                                      Some(calculateTotalScore(criteriaScores, criteria))]

ListRubricsStep(s, queryOk) ==
    /\ judging[s].pc = "rubric_fetch"
    /\ judging' = [judging EXCEPT ![s] = afterListRubrics(judging[s], queryOk)]
    /\ UNCHANGED <<serviceVars, lifecycleVars, setupVars, routeVars, clientVars, namespaceVars,
                   scores, participantRoles, calculated>>

\* createScore settles
CreateScoreStep(s, insertOk) ==
    /\ judging[s].pc = "score_create"
    /\ LET invocation == judging[s]
           argument == createScoreArgument(invocation.input, Get(invocation.totalScore))
           created == createScore(argument, insertOk)
           called == [invocation EXCEPT !.calls =
                         Append(@, [fn |-> "createScore", arg |-> argument,
                                    ok |-> insertOk])]
       IN  /\ scores' = IF created.inserted THEN Append(scores, created.score) ELSE scores
           /\ judging' = [judging EXCEPT ![s] =
                  IF created.throws
                  THEN Rejected(called, createJudgingError("score_create",
                           "Failed to create score", TRUE, invocation.input.submissionId))
                  ELSE [called EXCEPT !.pc = "done", !.score = Some(created.score)]]
    /\ UNCHANGED <<serviceVars, lifecycleVars, setupVars, routeVars, clientVars, namespaceVars,
                   participantRoles, calculated>>

\* the rubrics table holds what earlier setup left; nothing scored yet
InitJudging ==
    /\ hackathons = [h \in HackathonIds |->
                        Some([name |-> HackathonName, status |-> "LIVE"])]
    /\ cached = [s \in Sessions |-> None]
    /\ lastOp = NoOp
    /\ tracks = <<>>
    /\ rubrics \in RubricTables
    /\ setup = [pc |-> "idle"]
    /\ calls = <<>>
    /\ InitRouteIdle
    /\ InitClientIdle
    /\ scores = <<>>
    /\ participantRoles = [h \in HackathonIds, p \in JudgeIds |-> Some("JUDGE")]
    /\ judging = [s \in Sessions |-> [pc |-> "idle"]]
    /\ calculated = None
    /\ submissions = <<>>
    /\ named = None
    /\ InitServiceIdle

\* one judge session scoring, with any input
NextJudging ==
    \/ \E input \in JudgingInputs : StartScoring("s1", input)
    \/ \E queryOk \in BOOLEAN : ListRubricsStep("s1", queryOk)
    \/ \E insertOk \in BOOLEAN : CreateScoreStep("s1", insertOk)
    \/ RetryScoring("s1")

SpecJudging == InitJudging /\ [][NextJudging]_vars

\* well-formed scoring requests for hackathon h1's one submission
ScoringRequests ==
    [hackathonId : {"h1"},
     submissionId : {Some(<<i>>) : i \in SubmissionIds},
     judgeId : {Some(<<j>>) : j \in JudgeIds},
     criteriaScores : {Some([c \in {"innovation"} |-> Num(v)]) : v \in 0..MaxScoreValue},
     feedback : {None}]

\* hackathon_participants rows for h1: each participant unenrolled, a judge
\* or a builder
RoleAssignments ==
    {[h \in HackathonIds, p \in JudgeIds |-> IF h = "h1" THEN r[p] ELSE None] :
        r \in [JudgeIds -> {None, Some("JUDGE"), Some("BUILDER")}]}

\* h1 has a usable rubric; anyone may be enrolled with any role
InitScoringSessions ==
    /\ hackathons = [h \in HackathonIds |->
                        Some([name |-> HackathonName, status |-> "LIVE"])]
    /\ cached = [s \in Sessions |-> None]
    /\ lastOp = NoOp
    /\ tracks = <<>>
    /\ rubrics = <<[rubric_id |-> 1, hackathon_id |-> "h1",
                    criteria_json |-> Some(JSONstringifyObject(
                        [c \in {"innovation"} |-> Criterion(10, MaxScoreValue)]))]>>
    /\ setup = [pc |-> "idle"]
    /\ calls = <<>>
    /\ InitRouteIdle
    /\ InitClientIdle
    /\ scores = <<>>
    /\ participantRoles \in RoleAssignments
    /\ judging = [s \in Sessions |-> [pc |-> "idle"]]
    /\ calculated = None
    /\ submissions = <<>>
    /\ named = None
    /\ InitServiceIdle

\* two sessions calling scoreSubmission, interleaved at the awaits
NextScoringSessions ==
    \/ \E s \in Sessions, input \in ScoringRequests : StartScoring(s, input)
    \/ \E s \in Sessions, queryOk \in BOOLEAN : ListRubricsStep(s, queryOk)
    \/ \E s \in Sessions, insertOk \in BOOLEAN : CreateScoreStep(s, insertOk)
    \/ \E s \in Sessions : RetryScoring(s)

SpecScoringSessions == InitScoringSessions /\ [][NextScoringSessions]_vars

(***************************************************************************)
(* calculateTotalScore on its own                                          *)
(***************************************************************************)
WeightTenths == {0, 3, 7}

\* criteria arguments: any subset of the names, each with a weight of 0, 0.3
\* or 0.7 and a positive max_score
CriteriaArguments ==
    UNION {[names -> {Criterion(w, max) : w \in WeightTenths, max \in 1..MaxScoreValue}] :
              names \in SUBSET CriterionNames}

CriteriaScoreArguments ==
    UNION {[names -> ScoreValues] : names \in SUBSET CriterionNames}

\* the function keeps no state, so one call per behaviour covers it
CalculateTotalScore(criteriaScores, criteria) ==
    /\ ~IsSome(calculated)
    /\ calculated' = Some([criteriaScores |-> criteriaScores, criteria |-> criteria,
                           result |-> calculateTotalScore(criteriaScores, criteria)])
    /\ UNCHANGED <<serviceVars, lifecycleVars, setupVars, routeVars, clientVars, namespaceVars,
                   scores, participantRoles, judging>>

InitTotalScore == InitLifecycle

NextTotalScore ==
    \E criteriaScores \in CriteriaScoreArguments, criteria \in CriteriaArguments :
        CalculateTotalScore(criteriaScores, criteria)

SpecTotalScore == InitTotalScore /\ [][NextTotalScore]_vars

(***************************************************************************)
(* Namespace and document-id helpers (lib/embeddings-namespace)            *)
(*                                                                         *)
(* A string is a sequence of tokens: the single characters "0", "a", "F",  *)
(* "g", "-", "/", ":" and the words "hackathons", "submissions",           *)
(* "projects", "judging", "submission", "project", "undefined".  No word   *)
(* can be spelled with the other tokens, so prefix, split and index        *)
(* operations on token sequences agree with those on the strings.          *)
(***************************************************************************)
HexDigits == {"0", "a", "F"}

Repeat(c, n) == [i \in 1..n |-> c]

\* the 8-4-4-4-12 layout filled with one character per group pair
Uuid(c1, c2) ==
    Repeat(c1, 8) \o <<"-">> \o Repeat(c2, 4) \o <<"-">> \o Repeat(c1, 4)
        \o <<"-">> \o Repeat(c2, 4) \o <<"-">> \o Repeat(c1, 12)

ValidUuids == {Uuid(c1, c2) : c1 \in HexDigits, c2 \in HexDigits}

\* identifiers as callers may pass them: undefined, '', and strings that are
\* not UUIDs in one way each
IdArguments ==
    {None, Some(<<>>)}
    \cup {Some(u) : u \in ValidUuids}
    \cup {Some(Repeat("a", 8)),
          Some(Uuid("g", "0")),
          Some(Uuid("a", "0") \o <<"0">>),
          Some(<<"0">> \o Uuid("a", "0")),
          Some(Tail(Uuid("a", "0"))),
          Some(Repeat("a", 36)),
          Some(Uuid("a", "0") \o <<"/", "judging">>),
          Some(<<"a", "/", "0">>),
          Some(<<"submission", ":">> \o Uuid("a", "0"))}

\* /^[0-9a-f]{8}-[0-9a-f]{4}-[0-9a-f]{4}-[0-9a-f]{4}-[0-9a-f]{12}$/i
UUID_REGEX_test_unanchored(value) ==
    /\ Len(value) >= 36
    /\ \A i \in 1..36 :
          IF i \in {9, 14, 19, 24} THEN value[i] = "-" ELSE value[i] \in HexDigits

UUID_REGEX_test(value) ==
    /\ Len(value) = 36
    /\ \A i \in 1..36 :
          IF i \in {9, 14, 19, 24} THEN value[i] = "-" ELSE value[i] \in HexDigits

ValidationError(message) == [name |-> "ValidationError", message |-> message]
Throws(error) == [throws |-> TRUE, error |-> error]
Returns(value) == [throws |-> FALSE, value |-> value]

\* validateUUIDInternal(value, fieldName): the error thrown, if any
validateUUIDInternal(value) ==
    IF ~IsSome(value) \/ Get(value) = <<>>
    THEN Some(ValidationError("must be a non-empty string"))
    ELSE IF ~UUID_REGEX_test(Get(value))
    THEN Some(ValidationError("must be a valid UUID"))
    ELSE None

NamespaceTypes == {"submissions", "projects", "judging"}
DocumentKinds == {"submission", "project"}

\* a template literal prints undefined as the word
interpolate(value) == IF IsSome(value) THEN Get(value) ELSE <<"undefined">>

\* EmbeddingNamespace.submissions / .projects / .judging
EmbeddingNamespace(type, hackathonId) ==
    IF IsSome(validateUUIDInternal(hackathonId))
    THEN Throws(Get(validateUUIDInternal(hackathonId)))
    ELSE Returns(<<"hackathons", "/">> \o interpolate(hackathonId) \o <<"/", type>>)

\* DocumentId.submission / .project
DocumentId(kind, id) ==
    IF IsSome(validateUUIDInternal(id))
    THEN Throws(Get(validateUUIDInternal(id)))
    ELSE Returns(<<kind, ":">> \o interpolate(id))

\* String.prototype.split(separator)
RECURSIVE split(_, _)
split(str, separator) ==
    IF \A i \in 1..Len(str) : str[i] # separator
    THEN <<str>>
    ELSE LET at == CHOOSE i \in 1..Len(str) :
                      str[i] = separator /\ \A j \in 1..(i - 1) : str[j] # separator
         IN  <<SubSeq(str, 1, at - 1)>> \o split(SubSeq(str, at + 1, Len(str)), separator)

\* String.prototype.indexOf(ch), 1-based; 0 when absent
indexOf(str, ch) ==
    IF \A i \in 1..Len(str) : str[i] # ch THEN 0
    ELSE CHOOSE i \in 1..Len(str) : str[i] = ch /\ \A j \in 1..(i - 1) : str[j] # ch

\* validateNamespace(namespace): the error thrown, if any
validateNamespace(namespace) ==
    IF ~IsSome(namespace) \/ Get(namespace) = <<>>
    THEN Some(ValidationError("Namespace must be a non-empty string"))
    ELSE IF ~startsWith(Get(namespace), <<"hackathons", "/">>)
    THEN Some(ValidationError("Namespace must start with hackathons/"))
    ELSE LET parts == split(Get(namespace), "/")
         IN  IF Len(parts) # 3
             THEN Some(ValidationError("Namespace must follow format"))
             ELSE IF ~UUID_REGEX_test(parts[2])
             THEN Some(ValidationError("Invalid hackathon ID in namespace"))
             ELSE IF parts[3] \notin {<<t>> : t \in NamespaceTypes}
             THEN Some(ValidationError("Invalid namespace type"))
             ELSE None

\* validateDocumentId(docId): the error thrown, if any
validateDocumentId(docId) ==
    IF ~IsSome(docId) \/ Get(docId) = <<>>
    THEN Some(ValidationError("Document ID must be a non-empty string"))
    ELSE IF ~\E prefix \in DocumentKinds : startsWith(Get(docId), <<prefix, ":">>)
    THEN Some(ValidationError("Document ID must start with one of the prefixes"))
    ELSE LET prefix == split(Get(docId), ":")[1]
             id == SubSeq(Get(docId), Len(prefix) + 2, Len(Get(docId)))
         IN  IF ~UUID_REGEX_test(id)
             THEN Some(ValidationError("Invalid UUID in document ID"))
             ELSE None

parseNamespace(namespace) ==
    IF IsSome(validateNamespace(namespace))
    THEN Throws(Get(validateNamespace(namespace)))
    ELSE LET parts == split(Get(namespace), "/")
         IN  Returns([hackathonId |-> parts[2], type |-> parts[3]])

parseDocumentId(docId) ==
    IF IsSome(validateDocumentId(docId))
    THEN Throws(Get(validateDocumentId(docId)))
    ELSE LET colonIndex == indexOf(Get(docId), ":")
         IN  Returns([type |-> SubSeq(Get(docId), 1, colonIndex - 1),
                      id |-> SubSeq(Get(docId), colonIndex + 1, Len(Get(docId)))])

\* strings handed to the parsers: pieces that are right or wrong one by one
NamespaceArguments ==
    {None, Some(<<>>)}
    \cup {Some(prefix \o Get(id) \o suffix) :
            prefix \in {<<"hackathons", "/">>, <<"projects", "/">>, <<>>},
            id \in IdArguments \ {None},
            suffix \in {<<"/", t>> : t \in NamespaceTypes \cup {"submission"}}
                       \cup {<<>>, <<"/", "judging", "/", "0">>}}

DocumentIdArguments ==
    {None, Some(<<>>)}
    \cup {Some(prefix \o Get(id)) :
            prefix \in {<<"submission", ":">>, <<"project", ":">>,
                        <<"submissions", ":">>, <<"project">>, <<>>},
            id \in IdArguments \ {None}}

\* the helpers keep no state, so one call per behaviour covers them
BuildNamespace(type, hackathonId) ==
    /\ ~IsSome(named)
    /\ named' = Some([fn |-> "EmbeddingNamespace", kind |-> type, arg |-> hackathonId,
                      result |-> EmbeddingNamespace(type, hackathonId)])
    /\ UNCHANGED <<serviceVars, lifecycleVars, setupVars, routeVars, clientVars, judgingVars,
                   submissions>>

BuildDocumentId(kind, id) ==
    /\ ~IsSome(named)
    /\ named' = Some([fn |-> "DocumentId", kind |-> kind, arg |-> id,
                      result |-> DocumentId(kind, id)])
    /\ UNCHANGED <<serviceVars, lifecycleVars, setupVars, routeVars, clientVars, judgingVars,
                   submissions>>

ParseNamespace(namespace) ==
    /\ ~IsSome(named)
    /\ named' = Some([fn |-> "parseNamespace", kind |-> "", arg |-> namespace,
                      result |-> parseNamespace(namespace)])
    /\ UNCHANGED <<serviceVars, lifecycleVars, setupVars, routeVars, clientVars, judgingVars,
                   submissions>>

ParseDocumentId(docId) ==
    /\ ~IsSome(named)
    /\ named' = Some([fn |-> "parseDocumentId", kind |-> "", arg |-> docId,
                      result |-> parseDocumentId(docId)])
    /\ UNCHANGED <<serviceVars, lifecycleVars, setupVars, routeVars, clientVars, judgingVars,
                   submissions>>

InitNamespaces == InitLifecycle

NextNamespaces ==
    \/ \E type \in NamespaceTypes, hackathonId \in IdArguments :
          BuildNamespace(type, hackathonId)
    \/ \E kind \in DocumentKinds, id \in IdArguments : BuildDocumentId(kind, id)
    \/ \E namespace \in NamespaceArguments : ParseNamespace(namespace)
    \/ \E docId \in DocumentIdArguments : ParseDocumentId(docId)

SpecNamespaces == InitNamespaces /\ [][NextNamespaces]_vars

(***************************************************************************)
(* lib/api/submissions: createSubmission                                   *)
(***************************************************************************)
MaxSubmissions == 2

CreateSubmissionInputs ==
    [project_id : {"p1"}, hackathon_id : IdArguments,
     submission_text : {"text"}, artifact_links : {<<>>}]

generateSubmissionNamespace(hackathonId) ==
    <<"hackathons", "/">> \o interpolate(hackathonId) \o <<"/", "submissions">>

\* the row createSubmission builds (submitted_at, the wall clock, left out)
submissionRow(input, submissionId) ==
    [submission_id |-> submissionId,
     project_id |-> input.project_id,
     submission_text |-> input.submission_text,
     artifact_links_json |-> JSONstringify(Some(input.artifact_links)),
     namespace |-> generateSubmissionNamespace(input.hackathon_id)]

\* createSubmission(input): the insert either stores the row or fails
CreateSubmission(input, insertOk) ==
    /\ Len(submissions) < MaxSubmissions
    /\ submissions' = IF insertOk
                      THEN Append(submissions, submissionRow(input, Len(submissions) + 1))
                      ELSE submissions
    /\ UNCHANGED <<serviceVars, lifecycleVars, setupVars, routeVars, clientVars, judgingVars, named>>

InitSubmissions == InitLifecycle

NextSubmissions ==
    \E input \in CreateSubmissionInputs, insertOk \in BOOLEAN :
        CreateSubmission(input, insertOk)

SpecSubmissions == InitSubmissions /\ [][NextSubmissions]_vars

(***************************************************************************)
(* Rubric creation through the useCreateRubric mutation                    *)
(***************************************************************************)
MaxRubrics == 2

\* a criterion {name, weight, max_score}; criterion_id and description take
\* no part in any check
RubricCriterion(name, weight, max_score) ==
    [name |-> name, weight |-> weight, max_score |-> max_score]

CriterionWeights == {Rat(-1, 2), Num(0), Rat(1, 2), Rat(199, 200), Num(1), Rat(3, 2)}
CriterionInputs ==
    {RubricCriterion(name, weight, Num(max_score)) :
        name \in {<<" ">>, <<"a">>}, weight \in CriterionWeights,
        max_score \in {0, 1}}
CreateRubricInputs ==
    [hackathon_id : {"h1"}, criteria : SeqsUpTo(CriterionInputs, 2)]

\* Math.abs
RatAbs(a) == [n |-> Abs(a.n), d |-> a.d]

\* criteria.reduce((sum, c) => sum + c.weight, 0)
RECURSIVE totalWeightFrom(_, _, _)
totalWeightFrom(criteria, i, sum) ==
    IF i > Len(criteria) THEN sum
    ELSE totalWeightFrom(criteria, i + 1, RatAdd(sum, criteria[i].weight))

\* the per-criterion loop of validateCriteria, from criterion i on
RECURSIVE criterionError(_, _)
criterionError(criteria, i) ==
    IF i > Len(criteria) THEN None
    ELSE LET criterion == criteria[i]
         IN  IF Len(trim(criterion.name)) = 0
             THEN Some("All criteria must have a name")
             ELSE IF ~RatLess(Num(0), criterion.weight)
                     \/ RatLess(Num(1), criterion.weight)
             THEN Some("Criterion weights must be between 0 and 1")
             ELSE IF ~RatLess(Num(0), criterion.max_score)
             THEN Some("Max score must be greater than 0")
             ELSE criterionError(criteria, i + 1)

\* validateCriteria(criteria): the first complaint, or null
validateCriteria(criteria) ==
    IF Len(criteria) = 0
    THEN Some("At least one criterion is required")
    ELSE IF RatLess(Rat(1, 100),
                    RatAbs(RatAdd(totalWeightFrom(criteria, 1, Num(0)), Num(-1))))
    THEN Some("Criterion weights must sum to 1.0")
    ELSE criterionError(criteria, 1)

\* parseCriteria(rubric): the criteria array of a stored row, [] when the
\* text does not parse (JSON.parse(undefined) throws)
parseCriteria(rubric) ==
    LET text == rubric.criteria_json
    IN  IF IsSome(text) /\ Len(Get(text)) >= 2
        THEN SubSeq(Get(text), 2, Len(Get(text)) - 1)
        ELSE <<>>

\* useCreateRubric().mutate(input): mutationFn validates, then createRubric
CreateRubricMutation(input, insertOk) ==
    /\ Len(rubrics) < MaxRubrics
    /\ LET validationError == validateCriteria(input.criteria)
           rubric == rubricRow([hackathon_id |-> input.hackathon_id,
                                criteria |-> Some(input.criteria)],
                               Len(rubrics) + 1)
       IN  IF IsSome(validationError)
           THEN /\ rubricMutation' = [status |-> "error", error |-> validationError,
                                      data |-> None]
                /\ UNCHANGED rubrics
           ELSE IF insertOk
           THEN /\ rubrics' = Append(rubrics, rubric)
                /\ rubricMutation' = [status |-> "success", error |-> None,
                                      data |-> Some(rubric)]
           ELSE /\ rubricMutation' = [status |-> "error",
                                      error |-> Some("Failed to create rubric"),
                                      data |-> None]
                /\ UNCHANGED rubrics
    /\ UNCHANGED <<lifecycleVars, tracks, setup, calls, routeVars, clientVars,
                   judgingVars, namespaceVars, participantVars, queryCache,
                   mutations, errorVars, authVars>>

\* setup invocations that pass their own checks with one track
RubricSetupInputs ==
    {input \in LifecycleInputs :
        /\ input.hackathon = [name |-> Some(<<"a">>), status |-> None]
        /\ input.tracks = Some(<<[name |-> "t1"]>>)}

InitRubrics == InitSetup

\* both creation paths: the mutation hook and createHackathonWithSetup
NextRubrics ==
    \/ \E input \in CreateRubricInputs, insertOk \in BOOLEAN :
            CreateRubricMutation(input, insertOk)
    \/ \E input \in RubricSetupInputs : StartSetup(input)
    \/ \E ok \in BOOLEAN, h \in HackathonIds : CreateHackathonStep(ok, h)
    \/ \E ok \in BOOLEAN : CreateTrackStep(ok)
    \/ \E ok \in BOOLEAN : CreateRubricStep(ok)

SpecRubrics == InitRubrics /\ [][NextRubrics]_vars

(***************************************************************************)
(* lib/api/participants: createParticipant, enrollParticipant,             *)
(* registerAndEnroll, and the role lookups of lib/auth/role-utils          *)
(***************************************************************************)
MaxParticipants == 2
MaxEnrollments == 2

Emails == {"e1", "e2"}
CreateParticipantInputs == [name : {"n"}, email : Emails]
EnrollmentRoles == {"BUILDER", "JUDGE"}
\* registerAndEnroll's second argument: an enrollment without participant_id
EnrollmentInputs == [hackathon_id : {"h1"}, role : EnrollmentRoles]
\* participant ids are the ones crypto.randomUUID hands out, in order
ParticipantIds == 1..MaxParticipants
EnrollParticipantInputs ==
    [hackathon_id : {"h1"}, participant_id : ParticipantIds, role : EnrollmentRoles]

\* zeroDBClient.queryRows(table, {filter, limit}): the filter is an object
\* {field: value}, a row matches when it agrees on every field
queryRowsWhere(table, filter, limit) ==
    LET matching == SelectSeq(table,
                        LAMBDA row : \A field \in DOMAIN filter : row[field] = filter[field])
    IN  SubSeq(matching, 1, IF Len(matching) < limit THEN Len(matching) ELSE limit)

\* the lookup of createParticipant: rows with that email, at most one
existingParticipants(table, input) ==
    queryRowsWhere(table, [email |-> input.email], 1)

\* the row createParticipant inserts
participantRow(input, participantId) ==
    [participant_id |-> participantId, name |-> input.name, email |-> input.email]

\* the row enrollParticipant inserts
enrollmentRow(input) ==
    [hackathon_id |-> input.hackathon_id, participant_id |-> input.participant_id,
     role |-> input.role]

\* hasRole(participantId, hackathonId, role): a row with the three values
\* exists; a failed query answers false
hasRoleQuery(table, participantId, hackathonId, role, queryOk) ==
    /\ queryOk
    /\ Len(queryRowsWhere(table,
                [hackathon_id |-> hackathonId, participant_id |-> participantId,
                 role |-> role], 1)) > 0

\* getUserRole(participantId, hackathonId): the role of the first row of
\* the pair, null when there is none or the query fails
getUserRole(table, participantId, hackathonId, queryOk) ==
    LET rows == queryRowsWhere(table,
                    [hackathon_id |-> hackathonId, participant_id |-> participantId], 1)
    IN  IF queryOk /\ Len(rows) > 0 THEN Some(rows[1].role) ELSE None

\* createParticipant has returned p: the call ends, or registerAndEnroll
\* goes on to enrollParticipant
participantReturned(invocation, p) ==
    [invocation EXCEPT !.participant = Some(p),
        !.pc = IF invocation.fn = "registerAndEnroll" THEN "enroll" ELSE "done"]

\* createParticipant(input), up to its first await
CallCreateParticipant(s, input) ==
    /\ registration[s].pc \in {"idle", "done", "failed"}
    /\ registration' = [registration EXCEPT ![s] =
            [fn |-> "createParticipant", pc |-> "lookup", input |-> input,
             enrollmentInput |-> None, participant |-> None, enrollment |-> None,
             inserted |-> FALSE, error |-> None]]
    /\ UNCHANGED <<lifecycleVars, setupVars, routeVars, clientVars, judgingVars,
                   namespaceVars, participants, hackathonParticipants, cacheVars,
                   errorVars, authVars>>

\* registerAndEnroll(participantInput, enrollmentInput), up to the first await
CallRegisterAndEnroll(s, participantInput, enrollmentInput) ==
    /\ registration[s].pc \in {"idle", "done", "failed"}
    /\ registration' = [registration EXCEPT ![s] =
            [fn |-> "registerAndEnroll", pc |-> "lookup", input |-> participantInput,
             enrollmentInput |-> Some(enrollmentInput), participant |-> None,
             enrollment |-> None, inserted |-> FALSE, error |-> None]]
    /\ UNCHANGED <<lifecycleVars, setupVars, routeVars, clientVars, judgingVars,
                   namespaceVars, participants, hackathonParticipants, cacheVars,
                   errorVars, authVars>>

\* the lookup query answers: an existing row is returned; otherwise (no
\* row, or the query failed) the function goes on to insert
LookupParticipantStep(s, queryOk) ==
    /\ registration[s].pc = "lookup"
    /\ LET rows == existingParticipants(participants, registration[s].input)
       IN  registration' = [registration EXCEPT ![s] =
                IF queryOk /\ Len(rows) > 0
                THEN participantReturned(@, rows[1])
                ELSE [@ EXCEPT !.pc = "insert"]]
    /\ UNCHANGED <<lifecycleVars, setupVars, routeVars, clientVars, judgingVars,
                   namespaceVars, participants, hackathonParticipants, cacheVars,
                   errorVars, authVars>>

\* insertRows('participants', [participant]) answers
InsertParticipantStep(s, insertOk) ==
    /\ registration[s].pc = "insert"
    /\ Len(participants) < MaxParticipants
    /\ LET participant == participantRow(registration[s].input, Len(participants) + 1)
       IN  IF insertOk
           THEN /\ participants' = Append(participants, participant)
                /\ registration' = [registration EXCEPT ![s] =
                        participantReturned([@ EXCEPT !.inserted = TRUE], participant)]
           ELSE /\ UNCHANGED participants
                /\ registration' = [registration EXCEPT ![s] =
                        [@ EXCEPT !.pc = "failed",
                                  !.error = Some("Failed to create participant")]]
    /\ UNCHANGED <<lifecycleVars, setupVars, routeVars, clientVars, judgingVars,
                   namespaceVars, hackathonParticipants, cacheVars, errorVars, authVars>>

\* the enrollParticipant call of registerAndEnroll: its insert answers
EnrollStep(s, insertOk) ==
    /\ registration[s].pc = "enroll"
    /\ Len(hackathonParticipants) < MaxEnrollments
    /\ LET enrollmentInput == Get(registration[s].enrollmentInput)
           newEnrollment == enrollmentRow(
               [hackathon_id |-> enrollmentInput.hackathon_id,
                role |-> enrollmentInput.role,
                participant_id |-> Get(registration[s].participant).participant_id])
       IN  IF insertOk
           THEN /\ hackathonParticipants' = Append(hackathonParticipants, newEnrollment)
                /\ registration' = [registration EXCEPT ![s] =
                        [@ EXCEPT !.pc = "done", !.enrollment = Some(newEnrollment)]]
           ELSE /\ UNCHANGED hackathonParticipants
                /\ registration' = [registration EXCEPT ![s] =
                        [@ EXCEPT !.pc = "failed",
                                  !.error = Some("Failed to enroll participant")]]
    /\ UNCHANGED <<lifecycleVars, setupVars, routeVars, clientVars, judgingVars,
                   namespaceVars, participants, cacheVars, errorVars, authVars>>

\* enrollParticipant(input) called on its own: one insert
EnrollParticipant(s, input, insertOk) ==
    /\ registration[s].pc \in {"idle", "done", "failed"}
    /\ Len(hackathonParticipants) < MaxEnrollments
    /\ LET newEnrollment == enrollmentRow(input)
           invocation == [fn |-> "enrollParticipant", input |-> input,
                          enrollmentInput |-> None, participant |-> None,
                          inserted |-> FALSE]
       IN  IF insertOk
           THEN /\ hackathonParticipants' = Append(hackathonParticipants, newEnrollment)
                /\ registration' = [registration EXCEPT ![s] =
                        invocation @@ [pc |-> "done", enrollment |-> Some(newEnrollment),
                                       error |-> None]]
           ELSE /\ UNCHANGED hackathonParticipants
                /\ registration' = [registration EXCEPT ![s] =
                        invocation @@ [pc |-> "failed", enrollment |-> None,
                                       error |-> Some("Failed to enroll participant")]]
    /\ UNCHANGED <<lifecycleVars, setupVars, routeVars, clientVars, judgingVars,
                   namespaceVars, participants, cacheVars, errorVars, authVars>>

InitParticipants == InitLifecycle

\* two sessions registering and enrolling, interleaved at the awaits
NextParticipants ==
    \/ \E s \in Sessions, input \in CreateParticipantInputs :
            CallCreateParticipant(s, input)
    \/ \E s \in Sessions, input \in CreateParticipantInputs,
          enrollmentInput \in EnrollmentInputs :
            CallRegisterAndEnroll(s, input, enrollmentInput)
    \/ \E s \in Sessions, queryOk \in BOOLEAN : LookupParticipantStep(s, queryOk)
    \/ \E s \in Sessions, insertOk \in BOOLEAN : InsertParticipantStep(s, insertOk)
    \/ \E s \in Sessions, insertOk \in BOOLEAN : EnrollStep(s, insertOk)
    \/ \E s \in Sessions, input \in EnrollParticipantInputs, insertOk \in BOOLEAN :
            EnrollParticipant(s, input, insertOk)

SpecParticipants == InitParticipants /\ [][NextParticipants]_vars

(***************************************************************************)
(* Optimistic updates: useCreateTeam, useAddTeamMember, useCreateTrack,    *)
(* useCreateScore.  The query cache maps the keys that hold data to their  *)
(* data; a key outside its domain has no cached value (undefined).         *)
(***************************************************************************)
MaxMutations == 2

OptimisticHooks == {"useCreateTeam", "useAddTeamMember", "useCreateTrack", "useCreateScore"}

\* a query key [root, {field: value}]
queryKey(root, field, value) == <<root, field, value>>

\* the argument each hook's mutate is called with
MutationInputs(hook) ==
    CASE hook = "useCreateTeam" -> {[hackathon_id |-> "h1", name |-> "n"]}
      [] hook = "useAddTeamMember" ->
            {[team_id |-> "t1", participant_id |-> "p1", role |-> "MEMBER"]}
      [] hook = "useCreateTrack" -> {[hackathon_id |-> "h1", name |-> "n"]}
      [] hook = "useCreateScore" -> {[submission_id |-> "sub1", judge_id |-> "j1"]}

\* the query keys onMutate of each hook touches, in the order it touches them
affectedKeys(hook, input) ==
    CASE hook = "useCreateTeam" -> <<queryKey("teams", "hackathon_id", input.hackathon_id)>>
      [] hook = "useAddTeamMember" -> <<queryKey("team_members", "team_id", input.team_id)>>
      [] hook = "useCreateTrack" -> <<queryKey("tracks", "hackathon_id", input.hackathon_id)>>
      [] hook = "useCreateScore" ->
            <<queryKey("scores", "submission_id", input.submission_id),
              queryKey("scores", "judge_participant_id", input.judge_id)>>

\* the entry onMutate adds; its id is `temp-${Date.now()}`, except for a
\* team member, which has none
optimisticEntry(hook, input, now) ==
    IF hook = "useAddTeamMember"
    THEN [temp |-> None, value |-> input]
    ELSE [temp |-> Some(now), value |-> input]

QueryKeys ==
    UNION {UNION {{affectedKeys(hook, input)[i] : i \in 1..Len(affectedKeys(hook, input))} :
                      input \in MutationInputs(hook)} :
              hook \in OptimisticHooks}

\* queryClient.getQueryData(queryKey)
getQueryData(cache, key) ==
    IF key \in DOMAIN cache THEN Some(cache[key]) ELSE None

\* queryClient.setQueryData(queryKey, data)
setQueryData(cache, key, data) ==
    [k \in DOMAIN cache \cup {key} |-> IF k = key THEN data ELSE cache[k]]

\* (old) => old ? [...old, optimistic] : [optimistic]
appendOptimistic(old, entry) ==
    IF IsSome(old) THEN Append(Get(old), entry) ELSE <<entry>>

\* setQueryData with the updater, for the keys from i on
RECURSIVE addOptimistic(_, _, _, _)
addOptimistic(cache, keys, i, entry) ==
    IF i > Len(keys) THEN cache
    ELSE addOptimistic(
            setQueryData(cache, keys[i], appendOptimistic(getQueryData(cache, keys[i]), entry)),
            keys, i + 1, entry)

\* onError: if (context?.previousX) setQueryData(context.queryKey, context.previousX),
\* for the keys from i on; an array, even empty, is truthy
RECURSIVE restorePrevious(_, _, _, _)
restorePrevious(cache, keys, previous, i) ==
    IF i > Len(keys) THEN cache
    ELSE restorePrevious(
            IF IsSome(previous[i]) THEN setQueryData(cache, keys[i], Get(previous[i]))
            ELSE cache,
            keys, previous, i + 1)

\* what a list query may bring from the store
ServerLists == {<<>>, <<[temp |-> None, value |-> [stored |-> TRUE]]>>}

\* a useQuery fetch of the key settles (first load, or the refetch that
\* invalidateQueries asks for) and replaces the cached list
QuerySettles(key, data) ==
    /\ getQueryData(queryCache, key) # Some(data)
    /\ queryCache' = setQueryData(queryCache, key, data)
    /\ UNCHANGED <<lifecycleVars, setupVars, routeVars, clientVars, judgingVars,
                   namespaceVars, participantVars, rubricMutation, mutations,
                   errorVars, authVars>>

\* mutate(input): onMutate remembers the cached lists and adds the
\* optimistic entry; Date.now() is the number of the call
OnMutate(hook, input) ==
    /\ Len(mutations) < MaxMutations
    /\ LET keys == affectedKeys(hook, input)
           now == Len(mutations) + 1
       IN  /\ queryCache' = addOptimistic(queryCache, keys, 1,
                                          optimisticEntry(hook, input, now))
           /\ mutations' = Append(mutations,
                  [hook |-> hook, status |-> "pending", keys |-> keys,
                   previous |-> [i \in 1..Len(keys) |-> getQueryData(queryCache, keys[i])]])
    /\ UNCHANGED <<lifecycleVars, setupVars, routeVars, clientVars, judgingVars,
                   namespaceVars, participantVars, rubricMutation, errorVars, authVars>>

\* the mutationFn rejects: onError
MutationFails(mutationId) ==
    /\ mutationId \in 1..Len(mutations)
    /\ mutations[mutationId].status = "pending"
    /\ queryCache' = restorePrevious(queryCache, mutations[mutationId].keys,
                                     mutations[mutationId].previous, 1)
    /\ mutations' = [mutations EXCEPT ![mutationId].status = "error"]
    /\ UNCHANGED <<lifecycleVars, setupVars, routeVars, clientVars, judgingVars,
                   namespaceVars, participantVars, rubricMutation, errorVars, authVars>>

\* the mutationFn resolves: onSuccess invalidates the lists, which are
\* refetched by QuerySettles; the cached data stays until then
MutationSucceeds(mutationId) ==
    /\ mutationId \in 1..Len(mutations)
    /\ mutations[mutationId].status = "pending"
    /\ mutations' = [mutations EXCEPT ![mutationId].status = "success"]
    /\ UNCHANGED <<lifecycleVars, setupVars, routeVars, clientVars, judgingVars,
                   namespaceVars, participantVars, rubricMutation, queryCache,
                   errorVars, authVars>>

InitOptimistic == InitLifecycle

NextOptimistic ==
    \/ \E key \in QueryKeys, data \in ServerLists : QuerySettles(key, data)
    \/ \E hook \in OptimisticHooks : \E input \in MutationInputs(hook) :
            OnMutate(hook, input)
    \/ \E mutationId \in 1..MaxMutations : MutationFails(mutationId)
    \/ \E mutationId \in 1..MaxMutations : MutationSucceeds(mutationId)

SpecOptimistic == InitOptimistic /\ [][NextOptimistic]_vars

(***************************************************************************)
(* lib/error-handling: retryWithBackoff, and the query client's retry      *)
(* options (components/providers QueryProvider)                            *)
(***************************************************************************)
MaxConfiguredRetries == 4

DEFAULT_RETRY_CONFIG ==
    [maxRetries |-> 3, initialDelay |-> 1000, maxDelay |-> 10000, backoffFactor |-> 2,
     retryableStatusCodes |-> {500, 502, 503, 504}]

\* configurations a caller may pass: the backoff factor is at least 1
RetryConfigs ==
    {DEFAULT_RETRY_CONFIG} \cup
    [maxRetries : 0..MaxConfiguredRetries, initialDelay : {1000},
     maxDelay : {1500, 10000}, backoffFactor : {1, 2},
     retryableStatusCodes : {{500, 502, 503, 504}, {429, 503}}]

\* errors an operation may reject with.  Only an APIError carries a status
\* code; a fetch wrapper's error may carry it as response.status
HttpStatusCodes == {400, 404, 429, 500, 503}
ThrownErrors ==
    {[name |-> "APIError", statusCode |-> Some(code), responseStatus |-> None,
      canRetry |-> None] : code \in HttpStatusCodes}
    \cup {[name |-> "Error", statusCode |-> None, responseStatus |-> Some(503),
           canRetry |-> None],
          [name |-> "Error", statusCode |-> None, responseStatus |-> Some(404),
           canRetry |-> None],
          [name |-> "TypeError", statusCode |-> None, responseStatus |-> None,
           canRetry |-> None],
          [name |-> "ValidationError", statusCode |-> None, responseStatus |-> None,
           canRetry |-> None],
          [name |-> "JudgingError", statusCode |-> None, responseStatus |-> None,
           canRetry |-> Some(FALSE)],
          [name |-> "HackathonLifecycleError", statusCode |-> None,
           responseStatus |-> None, canRetry |-> Some(FALSE)],
          [name |-> "JudgingError", statusCode |-> None, responseStatus |-> None,
           canRetry |-> Some(TRUE)]}
FnOutcomes == {[ok |-> TRUE, error |-> None]}
              \cup {[ok |-> FALSE, error |-> Some(e)] : e \in ThrownErrors}

\* error.statusCode || error.response?.status
errorStatusCode(error) ==
    IF IsSome(error.statusCode) THEN error.statusCode ELSE error.responseStatus

\* shouldRetry(statusCode, config)
shouldRetry(statusCode, config) ==
    IF ~IsSome(statusCode) THEN TRUE
    ELSE Get(statusCode) \in config.retryableStatusCodes

\* Math.pow(base, exponent) for a whole exponent >= 0
RECURSIVE pow(_, _)
pow(base, exponent) == IF exponent = 0 THEN 1 ELSE base * pow(base, exponent - 1)

\* Math.min
min(a, b) == IF a < b THEN a ELSE b

\* calculateBackoff without the cap
calculateBackoff_uncapped(attempt, config) ==
    config.initialDelay * pow(config.backoffFactor, attempt - 1)

\* calculateBackoff(attempt, config)
calculateBackoff(attempt, config) ==
    min(config.initialDelay * pow(config.backoffFactor, attempt - 1), config.maxDelay)

\* QueryProvider: defaultOptions.queries.retry(failureCount, error)
queryRetry(failureCount, error) ==
    LET statusCode == errorStatusCode(error)
    IN  IF IsSome(statusCode) /\ Get(statusCode) >= 400 /\ Get(statusCode) < 500
        THEN FALSE
        ELSE failureCount < 3

\* QueryProvider: defaultOptions.queries.retryDelay(attemptIndex)
queryRetryDelay(attemptIndex) == min(1000 * pow(2, attemptIndex), 10000)

\* retryWithBackoff(fn, config) is called: the loop starts at attempt 1, or
\* falls through to `throw lastError` when maxRetries is below 1
StartRetryWithBackoff(config) ==
    /\ retry.pc \in {"idle", "returned", "thrown"}
    /\ retry' = [kind |-> "retryWithBackoff", config |-> Some(config), attempt |-> 1,
                 calls |-> 0, failures |-> 0, waits |-> <<>>, lastError |-> None,
                 pc |-> IF 1 <= config.maxRetries THEN "calling" ELSE "thrown"]
    /\ UNCHANGED <<lifecycleVars, setupVars, routeVars, clientVars, judgingVars,
                   namespaceVars, participantVars, cacheVars, handled, authVars>>

\* await fn() settles inside retryWithBackoff
RetryFnSettles(outcome) ==
    /\ retry.kind = "retryWithBackoff"
    /\ retry.pc = "calling"
    /\ LET config == Get(retry.config)
           called == [retry EXCEPT !.calls = @ + 1]
       IN  IF outcome.ok
           THEN retry' = [called EXCEPT !.pc = "returned"]
           ELSE LET error == Get(outcome.error)
                    failed == [called EXCEPT !.lastError = Some(error),
                                             !.failures = @ + 1]
                IN  IF ~shouldRetry(errorStatusCode(error), config)
                       \/ retry.attempt = config.maxRetries
                    THEN retry' = [failed EXCEPT !.pc = "thrown"]
                    ELSE retry' = [failed EXCEPT !.pc = "waiting",
                            !.waits = Append(@, calculateBackoff(retry.attempt, config))]
    /\ UNCHANGED <<lifecycleVars, setupVars, routeVars, clientVars, judgingVars,
                   namespaceVars, participantVars, cacheVars, handled, authVars>>

\* a query with the QueryProvider defaults starts fetching
StartQuery ==
    /\ retry.pc \in {"idle", "returned", "thrown"}
    /\ retry' = [kind |-> "query", config |-> None, attempt |-> 1, calls |-> 0,
                 failures |-> 0, waits |-> <<>>, lastError |-> None, pc |-> "calling"]
    /\ UNCHANGED <<lifecycleVars, setupVars, routeVars, clientVars, judgingVars,
                   namespaceVars, participantVars, cacheVars, handled, authVars>>

\* the queryFn settles: on failure the client asks retry(failureCount, error)
\* with the number of failures before this one, then waits retryDelay
QueryFnSettles(outcome) ==
    /\ retry.kind = "query"
    /\ retry.pc = "calling"
    /\ LET called == [retry EXCEPT !.calls = @ + 1]
       IN  IF outcome.ok
           THEN retry' = [called EXCEPT !.pc = "returned"]
           ELSE LET error == Get(outcome.error)
                    failed == [called EXCEPT !.lastError = Some(error),
                                             !.failures = @ + 1]
                IN  IF queryRetry(retry.failures, error)
                    THEN retry' = [failed EXCEPT !.pc = "waiting",
                            !.waits = Append(@, queryRetryDelay(retry.failures))]
                    ELSE retry' = [failed EXCEPT !.pc = "thrown"]
    /\ UNCHANGED <<lifecycleVars, setupVars, routeVars, clientVars, judgingVars,
                   namespaceVars, participantVars, cacheVars, handled, authVars>>

\* await delay(backoffDelay) is over: the next attempt
DelayElapses ==
    /\ retry.pc = "waiting"
    /\ retry' = [retry EXCEPT !.pc = "calling", !.attempt = @ + 1]
    /\ UNCHANGED <<lifecycleVars, setupVars, routeVars, clientVars, judgingVars,
                   namespaceVars, participantVars, cacheVars, handled, authVars>>

InitRetry == InitLifecycle

NextRetry ==
    \/ \E config \in RetryConfigs : StartRetryWithBackoff(config)
    \/ \E outcome \in FnOutcomes : RetryFnSettles(outcome)
    \/ StartQuery
    \/ \E outcome \in FnOutcomes : QueryFnSettles(outcome)
    \/ DelayElapses

SpecRetry == InitRetry /\ [][NextRetry]_vars

(***************************************************************************)
(* lib/error-handling: handleAPIError                                      *)
(***************************************************************************)
ERROR_MESSAGES ==
    [statusCode \in {400, 401, 403, 404, 422, 429, 500, 502, 503, 504} |->
        CASE statusCode = 400 -> "Bad request. Please check your input and try again."
          [] statusCode = 401 -> "Authentication failed. Please check your API credentials."
          [] statusCode = 403 -> "Access denied. You do not have permission to perform this action."
          [] statusCode = 404 -> "Resource not found. Please verify the project ID or resource identifier."
          [] statusCode = 422 -> "Invalid request data. Please check all required fields are correctly formatted."
          [] statusCode = 429 -> "Too many requests. Please wait a moment and try again."
          [] statusCode = 500 -> "Server error. Please try again later."
          [] statusCode = 502 -> "Bad gateway. The server is temporarily unavailable."
          [] statusCode = 503 -> "Service unavailable. Please try again later."
          [] statusCode = 504 -> "Gateway timeout. The request took too long to complete."]

NETWORK_ERROR_MESSAGE == "Network error. Please check your internet connection."

\* new APIError(message, statusCode, originalError)
APIError(message, statusCode, originalError) ==
    [name |-> "APIError", message |-> message, statusCode |-> statusCode,
     originalError |-> originalError]

\* errors that reach handleAPIError: message '' is falsy; response is the
\* fetch wrapper's {status, data: {error}}
RawMessages == {"", "Failed to fetch", "Network request failed",
                "duplicate key value violates unique constraint users_email_key"}
CaughtErrors ==
    [name : {"Error", "NetworkError"}, message : RawMessages,
     statusCode : {None, Some(404), Some(418), Some(500)},
     responseStatus : {None, Some(503)},
     responseDataError : {None, Some("relation users does not exist")}]
ErrorContexts == {None, Some([endpoint |-> "/auth/login", method |-> "POST"])}

\* getUserFriendlyErrorMessage(statusCode, originalMessage)
getUserFriendlyErrorMessage(statusCode, originalMessage) ==
    IF ~IsSome(statusCode)
    THEN IF originalMessage # "" THEN originalMessage ELSE NETWORK_ERROR_MESSAGE
    ELSE IF Get(statusCode) \in DOMAIN ERROR_MESSAGES
         THEN ERROR_MESSAGES[Get(statusCode)]
         ELSE "An unexpected error occurred (" \o ToString(Get(statusCode)) \o ")"

\* isNetworkError(error), with navigator.onLine
isNetworkError(error, onLine) ==
    \/ error.message = "Network request failed"
    \/ error.message = "Failed to fetch"
    \/ error.name = "NetworkError"
    \/ ~onLine

\* error.message || error.response?.data?.error || 'Unknown error'
originalMessageOf(error) ==
    IF error.message # "" THEN error.message
    ELSE IF IsSome(error.responseDataError) THEN Get(error.responseDataError)
    ELSE "Unknown error"

\* handleAPIError(error, context): what is logged and what is returned
handleAPIError(error, context, onLine) ==
    LET statusCode == errorStatusCode(error)
        originalMessage == originalMessageOf(error)
        logged == IF IsSome(context)
                  THEN Some([endpoint |-> Get(context).endpoint,
                             method |-> Get(context).method,
                             statusCode |-> statusCode, error |-> error])
                  ELSE None
    IN  [logged |-> logged,
         returned |-> IF isNetworkError(error, onLine)
                      THEN APIError(NETWORK_ERROR_MESSAGE, None, error)
                      ELSE APIError(getUserFriendlyErrorMessage(statusCode, originalMessage),
                                    statusCode, error)]

\* one call of handleAPIError
HandleAPIError(error, context, onLine) ==
    /\ handled' = Some([error |-> error] @@ handleAPIError(error, context, onLine))
    /\ UNCHANGED <<lifecycleVars, setupVars, routeVars, clientVars, judgingVars,
                   namespaceVars, participantVars, cacheVars, retry, authVars>>

InitErrorHandling == InitLifecycle

NextErrorHandling ==
    \E error \in CaughtErrors, context \in ErrorContexts, onLine \in BOOLEAN :
        HandleAPIError(error, context, onLine)

SpecErrorHandling == InitErrorHandling /\ [][NextErrorHandling]_vars

(***************************************************************************)
(* Submissions while the hackathon goes through its lifecycle              *)
(***************************************************************************)
\* submissions addressed to the hackathons of the store
LifecycleSubmissionInputs ==
    [project_id : {"p1"}, hackathon_id : {Some(<<h>>) : h \in HackathonIds},
     submission_text : {"text"}, artifact_links : {<<>>}]

InitClosedSubmissions == InitLifecycle

\* organizers moving hackathons through DRAFT, LIVE and CLOSED while
\* builders submit
NextClosedSubmissions ==
    \/ \E s \in Sessions, h \in HackathonIds : FetchHackathon(s, h)
    \/ \E s \in Sessions, n \in Statuses, ok \in BOOLEAN :
            TransitionHackathonStatus(s, n, ok)
    \/ \E input \in LifecycleSubmissionInputs, insertOk \in BOOLEAN :
            CreateSubmission(input, insertOk)

SpecClosedSubmissions == InitClosedSubmissions /\ [][NextClosedSubmissions]_vars

(***************************************************************************)
(* lib/auth/auth-service: login, signup, logout, refreshToken,             *)
(* getCurrentUser, and the page requests of the same browser               *)
(***************************************************************************)
MaxMeRequests == 3

TOKEN_KEY == "auth_token"
REFRESH_TOKEN_KEY == "refresh_token"
USER_KEY == "auth_user"

\* what the auth server may answer to /login and /register
AuthResponses ==
    {[kind |-> "ok", status |-> 200,
      tokens |-> [access_token |-> <<"tokA">>, refresh_token |-> r], user |-> "u1"] :
          r \in {None, Some(<<"refA">>)}}
    \cup {[kind |-> "http", status |-> s] : s \in {401, 500}}
    \cup {[kind |-> "network", status |-> 0]}
\* ... to /me
MeResponses ==
    {[kind |-> "ok", status |-> 200, user |-> "u1"]}
    \cup {[kind |-> "http", status |-> s] : s \in {401, 500}}
    \cup {[kind |-> "network", status |-> 0]}
\* ... to /refresh: data.access_token || data.token may be missing
RefreshResponses ==
    {[kind |-> "ok", status |-> 200, newToken |-> t] : t \in {None, Some(<<"tokB">>)}}
    \cup {[kind |-> "http", status |-> s] : s \in {401, 500}}
    \cup {[kind |-> "network", status |-> 0]}

\* pages the browser asks for
NavigatedPaths ==
    {<<"/">>, <<"/", "login">>, <<"/", "hackathons">>, <<"/", "profile">>,
     <<"/", "settings">>, <<"/", "api", "-settings">>,
     <<"/", "hackathons", "/", "x", "/", "judging">>}

\* localStorage.setItem / removeItem
setItem(storage, key, value) == [storage EXCEPT ![key] = Some(value)]
removeItem(storage, key) == [storage EXCEPT ![key] = None]

\* AuthService.setTokens(tokens)
setTokens(storage, tokens) ==
    LET withToken == setItem(storage, TOKEN_KEY, tokens.access_token)
    IN  IF truthy(tokens.refresh_token)
        THEN setItem(withToken, REFRESH_TOKEN_KEY, Get(tokens.refresh_token))
        ELSE withToken

\* AuthService.setUser(user)
setUser(storage, user) == setItem(storage, USER_KEY, user)

\* AuthService.clearAuth()
clearAuth(storage) ==
    removeItem(removeItem(removeItem(storage, TOKEN_KEY), REFRESH_TOKEN_KEY), USER_KEY)

\* the error a failed fetch or a not-ok response becomes inside the try
fetchError(answer, message) ==
    IF answer.kind = "network"
    THEN [name |-> "TypeError", message |-> "Failed to fetch", statusCode |-> None,
          responseStatus |-> None, responseDataError |-> None]
    ELSE [name |-> "APIError", message |-> message, statusCode |-> Some(answer.status),
          responseStatus |-> None, responseDataError |-> None]

\* the error after passing through the catch blocks of n enclosing frames,
\* each of which rethrows handleAPIError(error, context)
RECURSIVE rethrown(_, _)
rethrown(error, n) ==
    IF n = 0 THEN error
    ELSE LET apiError == handleAPIError(error, Some([endpoint |-> "/auth", method |-> "POST"]),
                                        TRUE).returned
         IN  rethrown([name |-> apiError.name, message |-> apiError.message,
                       statusCode |-> apiError.statusCode, responseStatus |-> None,
                       responseDataError |-> None], n - 1)

\* a finished call
authReturned(fn, value) ==
    [fn |-> fn, pc |-> "returned", meRequests |-> authCall.meRequests,
     refreshes |-> authCall.refreshes, refreshFailed |-> FALSE,
     returned |-> Some(value), thrown |-> None]
authThrown(fn, error, refreshFailed) ==
    [fn |-> fn, pc |-> "thrown", meRequests |-> authCall.meRequests,
     refreshes |-> authCall.refreshes, refreshFailed |-> refreshFailed,
     returned |-> None, thrown |-> Some(error)]

NoAuthCallRunning == authCall.pc \in {"idle", "returned", "thrown"}

\* login and signup share their body but for the endpoint and the message:
\* the stored credentials and the call's outcome after the answer
authenticated(fn, message, answer) ==
    IF answer.kind = "ok"
    THEN [localStorage |-> setUser(setTokens(localStorage, answer.tokens), answer.user),
          authCall |-> [authReturned(fn, answer.user) EXCEPT
                            !.meRequests = 0, !.refreshes = 0]]
    ELSE [localStorage |-> localStorage,
          authCall |-> [authThrown(fn, rethrown(fetchError(answer, message), 1), FALSE)
                            EXCEPT !.meRequests = 0, !.refreshes = 0]]

\* authService.login(credentials)
Login(answer) ==
    /\ NoAuthCallRunning
    /\ localStorage' = authenticated("login", "Login failed", answer).localStorage
    /\ authCall' = authenticated("login", "Login failed", answer).authCall
    /\ UNCHANGED <<lifecycleVars, setupVars, routeVars, clientVars, judgingVars,
                   namespaceVars, participantVars, cacheVars, errorVars, cookieJar>>

\* authService.signup(credentials)
Signup(answer) ==
    /\ NoAuthCallRunning
    /\ localStorage' = authenticated("signup", "Signup failed", answer).localStorage
    /\ authCall' = authenticated("signup", "Signup failed", answer).authCall
    /\ UNCHANGED <<lifecycleVars, setupVars, routeVars, clientVars, judgingVars,
                   namespaceVars, participantVars, cacheVars, errorVars, cookieJar>>

\* authService.logout(): the server call's failure is ignored
Logout ==
    /\ NoAuthCallRunning
    /\ localStorage' = clearAuth(localStorage)
    /\ authCall' = [authReturned("logout", "void") EXCEPT
                        !.meRequests = 0, !.refreshes = 0]
    /\ UNCHANGED <<lifecycleVars, setupVars, routeVars, clientVars, judgingVars,
                   namespaceVars, participantVars, cacheVars, errorVars, cookieJar>>

\* authService.getCurrentUser() is called: without a token it throws,
\* with one it asks /me
GetCurrentUser ==
    /\ NoAuthCallRunning
    /\ IF ~truthy(localStorage[TOKEN_KEY])
       THEN authCall' = [authThrown("getCurrentUser",
                            rethrown([name |-> "APIError", message |-> "No authentication token",
                                      statusCode |-> Some(401), responseStatus |-> None,
                                      responseDataError |-> None], 1), FALSE)
                            EXCEPT !.meRequests = 0, !.refreshes = 0]
       ELSE authCall' = [fn |-> "getCurrentUser", pc |-> "me", meRequests |-> 0,
                         refreshes |-> 0, refreshFailed |-> FALSE,
                         returned |-> None, thrown |-> None]
    /\ UNCHANGED <<lifecycleVars, setupVars, routeVars, clientVars, judgingVars,
                   namespaceVars, participantVars, cacheVars, errorVars,
                   localStorage, cookieJar>>

\* /me answers.  On 401 refreshToken starts: without a refresh token it
\* throws at once, clearing the stored credentials
MeResponds(answer) ==
    /\ authCall.pc = "me"
    /\ authCall.meRequests < MaxMeRequests
    /\ LET asked == [authCall EXCEPT !.meRequests = @ + 1]
           frames == authCall.refreshes + 1
       IN  IF answer.kind = "ok"
           THEN /\ localStorage' = setUser(localStorage, answer.user)
                /\ authCall' = [asked EXCEPT !.pc = "returned",
                                             !.returned = Some(answer.user)]
           ELSE IF answer.kind = "http" /\ answer.status = 401
           THEN IF ~truthy(localStorage[REFRESH_TOKEN_KEY])
                THEN /\ localStorage' = clearAuth(localStorage)
                     /\ authCall' = [asked EXCEPT !.pc = "thrown",
                            !.refreshFailed = TRUE,
                            !.thrown = Some(rethrown(
                                [name |-> "APIError",
                                 message |-> "No refresh token available",
                                 statusCode |-> Some(401), responseStatus |-> None,
                                 responseDataError |-> None], frames + 1))]
                ELSE /\ UNCHANGED localStorage
                     /\ authCall' = [asked EXCEPT !.pc = "refresh"]
           ELSE /\ UNCHANGED localStorage
                /\ authCall' = [asked EXCEPT !.pc = "thrown",
                       !.thrown = Some(rethrown(fetchError(answer, "Failed to get user"),
                                                frames))]
    /\ UNCHANGED <<lifecycleVars, setupVars, routeVars, clientVars, judgingVars,
                   namespaceVars, participantVars, cacheVars, errorVars, cookieJar>>

\* /refresh answers: a new token is stored and getCurrentUser calls itself;
\* anything else clears the stored credentials and throws
RefreshResponds(answer) ==
    /\ authCall.pc = "refresh"
    /\ LET frames == authCall.refreshes + 1
       IN  IF answer.kind = "ok" /\ truthy(answer.newToken)
           THEN /\ localStorage' = setItem(localStorage, TOKEN_KEY, Get(answer.newToken))
                /\ authCall' = [authCall EXCEPT !.pc = "me", !.refreshes = @ + 1]
           ELSE /\ localStorage' = clearAuth(localStorage)
                /\ authCall' = [authCall EXCEPT !.pc = "thrown",
                       !.refreshes = @ + 1, !.refreshFailed = TRUE,
                       !.thrown = Some(rethrown(
                            IF answer.kind = "ok"
                            THEN [name |-> "APIError",
                                  message |-> "No token in refresh response",
                                  statusCode |-> Some(500), responseStatus |-> None,
                                  responseDataError |-> None]
                            ELSE fetchError(answer, "Token refresh failed"),
                            frames + 1))]
    /\ UNCHANGED <<lifecycleVars, setupVars, routeVars, clientVars, judgingVars,
                   namespaceVars, participantVars, cacheVars, errorVars, cookieJar>>

\* the browser asks for a page: the request carries the site's cookies and
\* no Authorization header
Navigate(pathname) ==
    /\ LET req == [pathname |-> pathname, cookie |-> cookieJar[TOKEN_KEY],
                   authorization |-> None]
       IN  /\ request' = Some(req)
           /\ response' = Some(IF matcherMatches(pathname)
                               THEN middleware(req)
                               ELSE NextResponse_next)
    /\ UNCHANGED <<lifecycleVars, setupVars, classified, clientVars, judgingVars,
                   namespaceVars, serviceVars>>

InitAuthService == InitLifecycle

NextAuthService ==
    \/ \E answer \in AuthResponses : Login(answer)
    \/ \E answer \in AuthResponses : Signup(answer)
    \/ Logout
    \/ GetCurrentUser
    \/ \E answer \in MeResponses : MeResponds(answer)
    \/ \E answer \in RefreshResponses : RefreshResponds(answer)
    \/ \E pathname \in NavigatedPaths : Navigate(pathname)

SpecAuthService == InitAuthService /\ [][NextAuthService]_vars

(***************************************************************************)
(* Lifecycle properties                                                    *)
(***************************************************************************)
AllowedPairs == {<<"DRAFT", "LIVE">>, <<"LIVE", "CLOSED">>}
Range(seq) == {seq[i] : i \in 1..Len(seq)}
StoredStatus(h) == Get(hackathons[h]).status

\* C1: canTransitionStatus is true exactly for (DRAFT, LIVE) and (LIVE, CLOSED)
\* among the pairs of the three statuses, and getValidTransitions(s) lists
\* exactly the statuses t with canTransitionStatus(s, t).
C1_TransitionTable ==
    /\ lastOp.op = "canTransition" =>
          (lastOp.result <=> <<lastOp.currentStatus, lastOp.newStatus>> \in AllowedPairs)
    /\ lastOp.op = "validTransitions" =>
          /\ Range(lastOp.result) = {t \in Statuses : <<lastOp.status, t>> \in AllowedPairs}
          /\ Range(lastOp.result) = {t \in Statuses : canTransitionStatus(lastOp.status, t)}
          /\ Len(lastOp.result) = Cardinality(Range(lastOp.result))

C1_Witness ==
    /\ lastOp.op = "canTransition"
    /\ lastOp.currentStatus = "DRAFT"
    /\ lastOp.newStatus = "CLOSED"
    /\ lastOp.result = FALSE

\* C2: transitionHackathonStatus issues exactly one updateHackathon call,
\* carrying only hackathon_id and status = newStatus, when (current, new) is in
\* the transition table; otherwise it issues no call and fails with an error
\* that names the attempted pair and the allowed set.
C2_TransitionWritesIffAllowed ==
    lastOp.op = "transition" =>
        IF <<lastOp.currentStatus, lastOp.newStatus>> \in AllowedPairs
        THEN lastOp.issued =
                <<[hackathon_id |-> lastOp.hackathonId, status |-> lastOp.newStatus]>>
        ELSE /\ lastOp.issued = <<>>
             /\ lastOp.outcome = "error"
             /\ lastOp.statusCode = 400
             /\ lastOp.from = lastOp.currentStatus
             /\ lastOp.to = lastOp.newStatus
             /\ lastOp.valid =
                   CASE lastOp.currentStatus = "DRAFT" -> <<"LIVE">>
                     [] lastOp.currentStatus = "LIVE" -> <<"CLOSED">>
                     [] lastOp.currentStatus = "CLOSED" -> <<"none">>

C2_Witness ==
    /\ lastOp.op = "transition"
    /\ lastOp.currentStatus = "CLOSED"
    /\ lastOp.newStatus = "LIVE"
    /\ lastOp.issued = <<>>
    /\ lastOp.outcome = "error"

\* C3: the stored status never moves from LIVE back to DRAFT, never leaves
\* CLOSED, whatever sessions call transitionHackathonStatus with the status
\* they last read.
C3_StoredStatusMonotonic ==
    [][\A h \in HackathonIds :
          /\ StoredStatus(h) = "LIVE" => Get(hackathons'[h]).status # "DRAFT"
          /\ StoredStatus(h) = "CLOSED" => Get(hackathons'[h]).status = "CLOSED"]_vars

\* C4: every status write an application path sends to the store is a change
\* the transition table permits from the hackathon's current status.
C4_StatusWritesGuarded ==
    (lastOp.op \in {"transition", "statusButton"} /\ lastOp.issued # <<>>) =>
        <<lastOp.stored, lastOp.issued[1].status>> \in AllowedPairs

(***************************************************************************)
(* createHackathonWithSetup properties                                     *)
(***************************************************************************)
Started == setup.pc # "idle"
Blank(str) == \A i \in 1..Len(str) : str[i] = " "
InputNameEmpty == ~IsSome(setup.input.hackathon.name) \/ Blank(Get(setup.input.hackathon.name))
InputTracksEmpty == ~IsSome(setup.input.tracks) \/ Get(setup.input.tracks) = <<>>
InputCriteriaEmpty ==
    ~IsSome(setup.input.rubric.criteria_json) \/ Get(setup.input.rubric.criteria_json) = EmptyText
StoreEmpty ==
    /\ \A h \in HackathonIds : ~IsSome(hackathons[h])
    /\ tracks = <<>>
    /\ rubrics = <<>>
OkTrackCalls == {i \in DOMAIN calls : calls[i].fn = "createTrack" /\ calls[i].ok}
TrackNamesOf(rows) == [i \in 1..Len(rows) |-> rows[i].name]

C6_WriteOrder ==
    /\ \A i \in DOMAIN calls :
          /\ \A j \in 1..(i - 1) : calls[j].ok
          /\ (calls[i].fn = "createHackathon") <=> (i = 1)
          /\ calls[i].fn = "createHackathon" => calls[i].arg.status = Some("DRAFT")
          /\ calls[i].fn = "createTrack" =>
                /\ i - 1 <= Len(Get(setup.input.tracks))
                /\ calls[i].arg.name = Get(setup.input.tracks)[i - 1].name
                /\ IsSome(hackathons[calls[i].arg.hackathon_id])
                /\ Some(calls[i].arg.hackathon_id) = setup.hackathonId
          /\ calls[i].fn = "createRubric" =>
                /\ i = Len(Get(setup.input.tracks)) + 2
                /\ Cardinality(OkTrackCalls) = Len(Get(setup.input.tracks))
                /\ Some(calls[i].arg.hackathon_id) = setup.hackathonId
    /\ (Started /\ IsSome(setup.hackathonId)) =>
          Get(hackathons[Get(setup.hackathonId)]).status = "DRAFT"
    /\ Len(tracks) = Cardinality(OkTrackCalls)
    /\ Len(rubrics) = Cardinality({i \in DOMAIN calls : calls[i].fn = "createRubric" /\ calls[i].ok})

C6_Witness ==
    /\ setup.pc = "done"
    /\ Len(calls) = 4
    /\ setup.input.hackathon.status = Some("LIVE")
    /\ calls[2].arg.name = "t2"
    /\ calls[3].arg.name = "t1"

\* C7: a failure after the hackathon was created carries the created
\* hackathon's id and exactly the tracks created so far (all of them for a
\* rubric_create failure), and the rows already written stay in the store.
C7_PartialStateReported ==
    (Started /\ setup.pc = "failed" /\ IsSome(setup.hackathonId)) =>
        LET error == Get(setup.error)
            tracksInput == Get(setup.input.tracks)
            n == Cardinality(OkTrackCalls)
        IN  /\ error.phase \in {"tracks_create", "rubric_create"}
            /\ error.hackathonId = setup.hackathonId
            /\ IsSome(hackathons[Get(setup.hackathonId)])
            /\ IsSome(error.createdTracks)
            /\ TrackNamesOf(Get(error.createdTracks)) =
                  [i \in 1..n |-> tracksInput[i].name]
            /\ error.phase = "tracks_create" => n < Len(tracksInput)
            /\ error.phase = "rubric_create" => n = Len(tracksInput)
            /\ \A i \in 1..n :
                  /\ Get(error.createdTracks)[i].hackathon_id = Get(setup.hackathonId)
                  /\ \E k \in DOMAIN tracks : tracks[k] = Get(error.createdTracks)[i]
            /\ rubrics = <<>>

C7_Witness ==
    /\ setup.pc = "failed"
    /\ Get(setup.error).phase = "tracks_create"
    /\ IsSome(Get(setup.error).createdTracks)
    /\ Len(Get(Get(setup.error).createdTracks)) = 1
    /\ Len(Get(setup.input.tracks)) = 2

(***************************************************************************)
(* Route guard properties                                                  *)
(***************************************************************************)
\* the pathname starts with /hackathons/{id}/<segment>, id a non-empty segment
UnderHackathon(pathname, segment) ==
    \E id \in IdSegments \ {<<>>} :
        startsWith(pathname, <<"/", "hackathons", "/">> \o id \o <<"/", segment>>)
ExpectedRoles(pathname) ==
    IF \/ \E w \in {"setup", "participants", "prizes"} : UnderHackathon(pathname, w)
       \/ startsWith(pathname, <<"/", "api", "-settings">>)
    THEN {"ORGANIZER"}
    ELSE IF UnderHackathon(pathname, "judging") THEN {"JUDGE"}
    ELSE IF \E w \in {"teams", "projects", "submissions"} : UnderHackathon(pathname, w)
    THEN {"BUILDER", "ORGANIZER"}
    ELSE {}
UnderProtectedPrefix(pathname) ==
    \E r \in {<<"/", "hackathons">>, <<"/", "profile">>, <<"/", "settings">>} :
        startsWith(pathname, r)
ListedPublic(pathname) ==
    \/ pathname = <<"/">>
    \/ \E r \in {<<"/", "login">>, <<"/", "signup">>, <<"/", "features">>,
                 <<"/", "pricing">>, <<"/", "docs">>, <<"/", "contact">>,
                 <<"/", "privacy">>, <<"/", "terms">>,
                 <<"/", "public", "-hackathons">>} : startsWith(pathname, r)

\* C8: getRequiredRoles gives {ORGANIZER} for the setup, participants, prizes
\* and /api-settings paths, {JUDGE} for judging, {BUILDER, ORGANIZER} for
\* teams, projects, submissions and no role set otherwise; other paths under
\* /hackathons, /profile, /settings are protected without a role; the listed
\* public paths are public ('/' only exactly); hasAccess(role, path) holds iff
\* the path has no required roles or the role is among them.
C8_RouteClassification ==
    IsSome(classified) =>
        LET c == Get(classified)
            expected == ExpectedRoles(c.pathname)
        IN  /\ IF expected = {}
               THEN c.requiredRoles = None
               ELSE IsSome(c.requiredRoles) /\ Range(Get(c.requiredRoles)) = expected
            /\ UnderProtectedPrefix(c.pathname) => c.isProtected
            /\ (UnderProtectedPrefix(c.pathname) /\ expected = {}) =>
                  (c.isProtected /\ c.requiredRoles = None /\ c.hasAccess)
            /\ c.isPublic <=> ListedPublic(c.pathname)
            /\ c.hasAccess <=> (expected = {} \/ c.userRole \in expected)
            /\ (c.userRole = "MENTOR" /\ expected # {}) => ~c.hasAccess

C8_Witness ==
    /\ IsSome(classified)
    /\ Get(classified).pathname = <<"/", "hackathons", "/", "x", "/", "judging", "/", "x">>
    /\ Get(classified).userRole = "ORGANIZER"
    /\ ~Get(classified).hasAccess

\* C9: a request with no auth_token cookie and no Authorization header for a
\* path under /hackathons, /profile, /settings or /api-settings is answered
\* with a redirect to /login whose redirect parameter is the original path.
C9_TokenlessRedirected ==
    (/\ IsSome(request)
     /\ Get(request).cookie = None
     /\ Get(request).authorization = None
     /\ \/ UnderProtectedPrefix(Get(request).pathname)
        \/ startsWith(Get(request).pathname, <<"/", "api", "-settings">>)) =>
        /\ Get(response).kind = "redirect"
        /\ Get(response).to = <<"/", "login">>
        /\ Get(response).redirect = Get(request).pathname

\* the edge's answer to a request, as EdgeRequest computes it
EdgeResponse(req) ==
    IF matcherMatches(req.pathname) THEN middleware(req) ELSE NextResponse_next

HasNonEmptyToken(req) ==
    IsSome(requestToken(req)) /\ Get(requestToken(req)) # <<>>

RoleGated(pathname) ==
    \/ requiresOrganizer(pathname)
    \/ requiresJudge(pathname)
    \/ requiresOrganizerForHackathon(pathname)

\* C11: the edge's response depends only on the path and on whether a token
\* is present: a request carrying a non-empty token (cookie or header) is
\* never redirected, on role-gated routes too, and any other request for the
\* same path carrying a non-empty token, whatever its value, gets the same
\* response.
C11_TokenValueIrrelevant ==
    (IsSome(request) /\ HasNonEmptyToken(Get(request))) =>
        /\ Get(response).kind # "redirect"
        /\ \A cookie \in CookieValues, authorization \in AuthorizationHeaders :
              LET other == [pathname |-> Get(request).pathname,
                            cookie |-> cookie,
                            authorization |-> authorization]
              IN  (/\ HasNonEmptyToken(other)
                   /\ requestToken(other) # requestToken(Get(request))) =>
                      EdgeResponse(other) = Get(response)

\* a role-gated hackathon page requested with a token that is not a
\* session token at all, and let through
C11_Witness ==
    /\ IsSome(request)
    /\ Get(request).pathname = <<"/", "hackathons", "/", "x", "/", "setup">>
    /\ Get(request).cookie = None
    /\ Get(request).authorization = Some(<<"Basic ", "cred">>)
    /\ RoleGated(Get(request).pathname)
    /\ matcherMatches(Get(request).pathname)
    /\ Get(response) = NextResponse_next

(***************************************************************************)
(* ProtectedRoute properties                                               *)
(***************************************************************************)
Mounted == view # "unmounted"
LookupDone == roleQueryEnabled(Get(props), auth) /\ IsSome(roleQuery.data)
LookupTrue == roleQueryEnabled(Get(props), auth) /\ roleQuery.data = Some(TRUE)

\* C10: with a requiredRole, ProtectedRoute renders its children only when the
\* user is authenticated and the role lookup has completed and returned true;
\* once auth loading has finished, an unauthenticated user, a user whose
\* lookup returned false, and a user for whom no lookup is possible (no
\* hackathon id) see no children and are redirected to /login or /unauthorized.
C10_ChildrenOnlyWithRole ==
    (Mounted /\ IsSome(Get(props).requiredRole)) =>
        /\ view = "children" => (isAuthenticated(auth) /\ LookupTrue)
        /\ (/\ ~auth.isLoading
            /\ \/ ~isAuthenticated(auth)
               \/ (LookupDone /\ ~LookupTrue)
               \/ ~IsSome(Get(props).hackathonId)) =>
              /\ view # "children"
              /\ IsSome(pushed)
              /\ Get(pushed).to \in {"/login", "/unauthorized"}

(***************************************************************************)
(* Judging properties                                                      *)
(***************************************************************************)
Invocation == judging["s1"]
ScoringStarted == Invocation.pc # "idle"
BlankId(id) == id \in {None, Some(<<>>), Some(<<" ">>)}
NoScoresGiven(criteriaScores) == criteriaScores \in {None, Some(<<>>)}
CalledFns == {Invocation.calls[i].fn : i \in DOMAIN Invocation.calls}
FailedWith(phase, canRetry) ==
    /\ Invocation.pc = "failed"
    /\ Get(Invocation.error).phase = Some(phase)
    /\ Get(Invocation.error).canRetry = Some(canRetry)

\* C12: scoreSubmission with an empty or whitespace submissionId, an empty or
\* whitespace judgeId, or no criterion scores fails with phase 'validation'
\* and canRetry = false, and has called neither listRubrics nor createScore.
C12_InputValidationBeforeNetwork ==
    (/\ ScoringStarted
     /\ \/ BlankId(Invocation.input.submissionId)
        \/ BlankId(Invocation.input.judgeId)
        \/ NoScoresGiven(Invocation.input.criteriaScores)) =>
        /\ FailedWith("validation", FALSE)
        /\ Invocation.calls = <<>>
        /\ scores = <<>>

\* a whitespace judge id with everything else in order, against a store
\* that holds a usable rubric
C12_Witness ==
    /\ ScoringStarted
    /\ Invocation.input.submissionId = Some(<<"sub1">>)
    /\ Invocation.input.judgeId = Some(<<" ">>)
    /\ Invocation.input.hackathonId = "h1"
    /\ IsSome(Invocation.input.criteriaScores)
    /\ DOMAIN Get(Invocation.input.criteriaScores) = {"innovation"}
    /\ Len(rubrics) = 1
    /\ ~JSONparseThrows(rubrics[1].criteria_json)
    /\ FailedWith("validation", FALSE)
    /\ Invocation.calls = <<>>

CreateScoreCalled == "createScore" \in CalledFns
RubricFetched ==
    /\ \E i \in DOMAIN Invocation.calls :
          Invocation.calls[i].fn = "listRubrics" /\ Invocation.calls[i].ok
    /\ IsSome(Invocation.rubric)
    /\ \E i \in DOMAIN rubrics : rubrics[i] = Get(Invocation.rubric)
    /\ Invocation.input.hackathonId # "" =>
          Get(Invocation.rubric).hackathon_id = Invocation.input.hackathonId
RubricCriteria == JSONparse(Get(Invocation.rubric).criteria_json).obj
RubricParsed ==
    /\ ~JSONparseThrows(Get(Invocation.rubric).criteria_json)
    /\ ~JSONparse(Get(Invocation.rubric).criteria_json).null
SubmittedScores == Get(Invocation.input.criteriaScores)
EveryCriterionScoredInRange ==
    \A c \in DOMAIN RubricCriteria :
        /\ c \in DOMAIN SubmittedScores
        /\ SubmittedScores[c].n >= 0
        /\ SubmittedScores[c].n * RubricCriteria[c].max_score.d
               <= RubricCriteria[c].max_score.n * SubmittedScores[c].d

LastCall == Invocation.calls[Len(Invocation.calls)]

\* C14: every failure of scoreSubmission carries a phase and a canRetry flag
\* fixed by the step that failed: 'validation' / false for the input checks
\* and for a malformed payload, a missing criterion or an out-of-range score
\* after the rubric was fetched; 'rubric_fetch' / true for a failed or empty
\* fetch; 'score_create' / true for a failed createScore; nothing else.
C14_PhaseAndRetryByStep ==
    (ScoringStarted /\ Invocation.pc = "failed") =>
        /\ IsSome(Get(Invocation.error).phase)
        /\ IsSome(Get(Invocation.error).canRetry)
        /\ IF Invocation.calls = <<>>
           THEN FailedWith("validation", FALSE)
           ELSE IF LastCall.fn = "listRubrics"
           THEN IF LastCall.ok /\ IsSome(Invocation.rubric)
                THEN FailedWith("validation", FALSE)
                ELSE FailedWith("rubric_fetch", TRUE)
           ELSE FailedWith("score_create", TRUE)

(***************************************************************************)
(* calculateTotalScore properties                                          *)
(***************************************************************************)
RECURSIVE SumOf(_)
SumOf(f) ==
    IF DOMAIN f = {} THEN 0
    ELSE LET x == CHOOSE x \in DOMAIN f : TRUE
         IN  f[x] + SumOf([y \in DOMAIN f \ {x} |-> f[y]])

RECURSIVE ProductOf(_)
ProductOf(f) ==
    IF DOMAIN f = {} THEN 1
    ELSE LET x == CHOOSE x \in DOMAIN f : TRUE
         IN  f[x] * ProductOf([y \in DOMAIN f \ {x} |-> f[y]])

CalcScores == Get(calculated).criteriaScores
CalcCriteria == Get(calculated).criteria
CalcResult == Get(calculated).result
\* the scored criteria the rubric defines
Counted == DOMAIN CalcScores \cap DOMAIN CalcCriteria

\* sum over Counted of weight * score / max_score, as TermsNum / TermsDen
TermDen(c) == CalcCriteria[c].weight.d * CalcScores[c].d * CalcCriteria[c].max_score.n
TermsDen == ProductOf([c \in Counted |-> TermDen(c)])
TermsNum ==
    SumOf([c \in Counted |->
             CalcCriteria[c].weight.n * CalcScores[c].n * CalcCriteria[c].max_score.d
                 * ProductOf([o \in Counted \ {c} |-> TermDen(o)])])
\* sum over Counted of weight, as WeightsNum / WeightsDen
WeightsDen == ProductOf([c \in Counted |-> CalcCriteria[c].weight.d])
WeightsNum ==
    SumOf([c \in Counted |->
             CalcCriteria[c].weight.n
                 * ProductOf([o \in Counted \ {c} |-> CalcCriteria[o].weight.d])])

\* C15: calculateTotalScore(scores, criteria) is 100 times the sum, over the
\* scored criteria the rubric defines, of weight * score / max_score, divided
\* by the sum of those weights, and 0 when that weight sum is 0; all scores at
\* their max give exactly 100, all scores 0 give exactly 0, and with positive
\* weights and every score within [0, max_score] the total is within [0, 100].
C15_WeightedNormalizedTotal ==
    IsSome(calculated) =>
        /\ IF WeightsNum = 0
           THEN CalcResult = Num(0)
           ELSE CalcResult.n * TermsDen * WeightsNum
                    = 100 * TermsNum * WeightsDen * CalcResult.d
        /\ (/\ WeightsNum # 0
            /\ \A c \in Counted : CalcScores[c] = CalcCriteria[c].max_score) =>
              CalcResult = Num(100)
        /\ (\A c \in Counted : CalcScores[c] = Num(0)) => CalcResult = Num(0)
        /\ (/\ Counted # {}
            /\ \A c \in Counted :
                  /\ CalcCriteria[c].weight.n > 0
                  /\ CalcScores[c].n >= 0
                  /\ ~RatLess(CalcCriteria[c].max_score, CalcScores[c])) =>
              (CalcResult.n >= 0 /\ CalcResult.n <= 100 * CalcResult.d)

\* weights 0.3 and 0.7, innovation scored 1 of 2 and design 1 of 1: 85
C15_Witness ==
    /\ IsSome(calculated)
    /\ Counted = CriterionNames
    /\ CalcCriteria["innovation"] = Criterion(3, 2)
    /\ CalcCriteria["design"] = Criterion(7, 1)
    /\ CalcScores["innovation"] = Num(1)
    /\ CalcScores["design"] = Num(1)
    /\ CalcResult = Num(85)

\* C16: a scoreSubmission call that passed every check and whose insert the
\* store accepts succeeds, with exactly one row added to the scores table:
\* its total_score is the weighted normalized total returned to the caller,
\* and its submission id, judge id, serialized per-criterion scores and
\* feedback are the inputs.
C16_RowCarriesComputedTotal ==
    (/\ ScoringStarted
     /\ CreateScoreCalled
     /\ LastCall.ok) =>
        /\ Invocation.pc = "done"
        /\ Len(scores) = 1
        /\ Invocation.score = Some(scores[1])
        /\ scores[1].total_score = Get(Invocation.totalScore)
        /\ Get(Invocation.totalScore) = calculateTotalScore(SubmittedScores, RubricCriteria)
        /\ scores[1].submission_id = Get(Invocation.input.submissionId)
        /\ scores[1].judge_participant_id = Invocation.input.judgeId
        /\ scores[1].score_json = JSONstringifyObject(SubmittedScores)
        /\ scores[1].feedback = Invocation.input.feedback

(***************************************************************************)
(* Score uniqueness and authorization                                      *)
(***************************************************************************)
\* the rows stored for a (submission, judge) pair
RowsFor(submissionId, judgeId) ==
    {i \in DOMAIN scores :
        /\ scores[i].submission_id = submissionId
        /\ scores[i].judge_participant_id = Some(judgeId)}

\* a scoreSubmission call for the pair reached createScore and the store
\* accepted the insert
InsertAccepted(submissionId, judgeId) ==
    \E s \in Sessions :
        /\ judging[s].pc \in {"done", "failed"}
        /\ judging[s].input.submissionId = Some(submissionId)
        /\ judging[s].input.judgeId = Some(judgeId)
        /\ \E i \in DOMAIN judging[s].calls :
              judging[s].calls[i].fn = "createScore" /\ judging[s].calls[i].ok

C19_StoredNamespacesValid ==
    \A i \in DOMAIN submissions :
        /\ validateNamespace(Some(submissions[i].namespace)) = None
        /\ \E u \in ValidUuids, t \in NamespaceTypes :
              submissions[i].namespace = <<"hackathons", "/">> \o u \o <<"/", t>>

NamedFn(fn) == IsSome(named) /\ Get(named).fn = fn
NamedResult == Get(named).result
IsValidUuid(id) == IsSome(id) /\ Get(id) \in ValidUuids

\* C20: for a valid UUID u, EmbeddingNamespace.t(u) returns a string that
\* validateNamespace accepts and parseNamespace maps back to {hackathonId: u,
\* type: t}, and DocumentId.k(u) returns a string that validateDocumentId
\* accepts and parseDocumentId maps back to {type: k, id: u}; for any other
\* argument both builders throw a ValidationError.
C20_BuildersAndParsersRoundTrip ==
    /\ NamedFn("EmbeddingNamespace") =>
          IF IsValidUuid(Get(named).arg)
          THEN /\ ~NamedResult.throws
               /\ validateNamespace(Some(NamedResult.value)) = None
               /\ parseNamespace(Some(NamedResult.value)) =
                      Returns([hackathonId |-> Get(Get(named).arg),
                               type |-> <<Get(named).kind>>])
          ELSE /\ NamedResult.throws
               /\ NamedResult.error.name = "ValidationError"
    /\ NamedFn("DocumentId") =>
          IF IsValidUuid(Get(named).arg)
          THEN /\ ~NamedResult.throws
               /\ validateDocumentId(Some(NamedResult.value)) = None
               /\ parseDocumentId(Some(NamedResult.value)) =
                      Returns([type |-> <<Get(named).kind>>,
                               id |-> Get(Get(named).arg)])
          ELSE /\ NamedResult.throws
               /\ NamedResult.error.name = "ValidationError"

\* the judging namespace of an upper-case UUID
C20_Witness ==
    /\ NamedFn("EmbeddingNamespace")
    /\ Get(named).kind = "judging"
    /\ Get(named).arg = Some(Uuid("F", "0"))
    /\ NamedResult = Returns(<<"hackathons", "/">> \o Uuid("F", "0") \o <<"/", "judging">>)
    /\ parseNamespace(Some(NamedResult.value)).value.hackathonId = Uuid("F", "0")

(***************************************************************************)
(* Rubric properties                                                       *)
(***************************************************************************)
\* the weights of a criteria array add up to 1 within 0.01
WeightsSumToOne(criteria) ==
    LET total == totalWeightFrom(criteria, 1, Num(0))
    IN  /\ ~RatLess(Rat(101, 100), total)
        /\ ~RatLess(total, Rat(99, 100))
WellFormedCriterion(criterion) ==
    /\ \E i \in 1..Len(criterion.name) : criterion.name[i] # " "
    /\ RatLess(Num(0), criterion.weight)
    /\ ~RatLess(Num(1), criterion.weight)
    /\ RatLess(Num(0), criterion.max_score)
WellFormedRubric(rubric) ==
    LET criteria == parseCriteria(rubric)
    IN  /\ Len(criteria) >= 1
        /\ \A i \in 1..Len(criteria) : WellFormedCriterion(criteria[i])
        /\ WeightsSumToOne(criteria)

\* C21: every rubric row in the store, whichever path wrote it, has at least
\* one criterion, each with a non-empty name, a weight in (0, 1] and a
\* positive max_score, and the weights sum to 1.0 within 0.01.
C21_StoredRubricsWellFormed ==
    \A i \in 1..Len(rubrics) : WellFormedRubric(rubrics[i])

\* the same for the rows written by the useCreateRubric mutation alone
C21_MutationRowsWellFormed ==
    rubricMutation.status = "success" => WellFormedRubric(Get(rubricMutation.data))

(***************************************************************************)
(* Participant properties                                                  *)
(***************************************************************************)
RowsWithEmail(table, email) == {i \in 1..Len(table) : table[i].email = email}
\* session s's createParticipant comes back in this step
ParticipantComesBack(s) ==
    /\ registration[s].pc \in {"lookup", "insert"}
    /\ registration'[s].pc \in {"enroll", "done"}

RowsOfPair(table, hackathonId, participantId) ==
    {i \in 1..Len(table) : /\ table[i].hackathon_id = hackathonId
                           /\ table[i].participant_id = participantId}

\* C23: hackathon_participants holds at most one row per (hackathon,
\* participant), so hasRole(p, h, r) is true exactly when getUserRole(p, h)
\* is r.
C23_OneRolePerPair ==
    \A h \in HackathonIds, p \in ParticipantIds :
        /\ Cardinality(RowsOfPair(hackathonParticipants, h, p)) <= 1
        /\ \A r \in UserRoles :
              hasRoleQuery(hackathonParticipants, p, h, r, TRUE)
                  <=> getUserRole(hackathonParticipants, p, h, TRUE) = Some(r)

(***************************************************************************)
(* Optimistic-update properties                                            *)
(***************************************************************************)
\* mutation m fails in this step
FailsNow(m) ==
    /\ m <= Len(mutations)
    /\ mutations[m].status = "pending"
    /\ mutations'[m].status = "error"

\* C24: when a mutation fails, the cached list under each query key it
\* touched is again exactly what it was right before the optimistic entry
\* was added: the remembered list, or no cached value when there was none.
C24_RolledBackOnFailure ==
    [][\A m \in 1..MaxMutations :
          FailsNow(m) =>
              \A i \in 1..Len(mutations[m].keys) :
                  getQueryData(queryCache', mutations[m].keys[i])
                      = mutations[m].previous[i]]_vars

\* the same for the keys that held a list before the mutation
C24_RolledBackWhenCached ==
    [][\A m \in 1..MaxMutations :
          FailsNow(m) =>
              \A i \in 1..Len(mutations[m].keys) :
                  IsSome(mutations[m].previous[i]) =>
                      getQueryData(queryCache', mutations[m].keys[i])
                          = mutations[m].previous[i]]_vars

(***************************************************************************)
(* Retry properties                                                        *)
(***************************************************************************)
InRetryWithBackoff == retry.kind = "retryWithBackoff"
RetryConfig == Get(retry.config)
\* the last error carries a status code outside the retryable set
LastErrorNotRetryable ==
    /\ IsSome(retry.lastError)
    /\ IsSome(errorStatusCode(Get(retry.lastError)))
    /\ Get(errorStatusCode(Get(retry.lastError))) \notin RetryConfig.retryableStatusCodes
\* initialDelay * backoffFactor^(k-1), by repeated multiplication
RECURSIVE Scaled(_, _, _)
Scaled(delay, factor, times) ==
    IF times = 0 THEN delay ELSE Scaled(delay * factor, factor, times - 1)

\* C25: retryWithBackoff calls fn at most maxRetries times and never again
\* after a success or after an error whose status code is not retryable;
\* the k-th wait is min(initialDelay * backoffFactor^(k-1), maxDelay), so
\* the waits never decrease and never exceed maxDelay.
C25_RetryBoundedAndCapped ==
    InRetryWithBackoff =>
        /\ retry.calls <= RetryConfig.maxRetries
        /\ retry.pc \in {"calling", "waiting"} => retry.attempt <= RetryConfig.maxRetries
        /\ retry.pc = "calling" => retry.calls = retry.attempt - 1
        /\ retry.pc = "returned" => retry.calls = retry.failures + 1
        /\ retry.pc # "returned" => retry.calls = retry.failures
        /\ LastErrorNotRetryable => retry.pc = "thrown"
        /\ Len(retry.waits) <= retry.failures
        /\ \A k \in 1..Len(retry.waits) :
              /\ LET delay == Scaled(RetryConfig.initialDelay,
                                     RetryConfig.backoffFactor, k - 1)
                 IN  retry.waits[k] = IF delay > RetryConfig.maxDelay
                                      THEN RetryConfig.maxDelay ELSE delay
              /\ retry.waits[k] <= RetryConfig.maxDelay
              /\ k > 1 => retry.waits[k - 1] <= retry.waits[k]

\* three attempts, all failing with 503: waits of 1000 and the capped 1500
C25_Witness ==
    /\ InRetryWithBackoff
    /\ retry.pc = "thrown"
    /\ retry.calls = 3
    /\ RetryConfig.maxRetries = 3
    /\ RetryConfig.maxDelay = 1500
    /\ RetryConfig.backoffFactor = 2
    /\ retry.waits = <<1000, 1500>>
    /\ errorStatusCode(Get(retry.lastError)) = Some(503)

\* a ValidationError, or a workflow error that says canRetry: false
ValidationClass(error) ==
    \/ error.name = "ValidationError"
    \/ /\ error.name \in {"JudgingError", "HackathonLifecycleError"}
       /\ error.canRetry = Some(FALSE)

\* C26: an operation that fails with a validation-class error is not tried
\* again: the loop (retryWithBackoff or the query client) ends with that
\* error at once, after one attempt and no wait when it was the first
\* failure.
C26_ValidationNeverRetried ==
    (IsSome(retry.lastError) /\ ValidationClass(Get(retry.lastError)))
        => /\ retry.pc = "thrown"
           /\ retry.failures = 1 => (retry.calls = 1 /\ retry.waits = <<>>)

(***************************************************************************)
(* Error-message properties                                                *)
(***************************************************************************)
\* the generic messages a user may be shown for a status code
SafeMessages(statusCode) ==
    {ERROR_MESSAGES[code] : code \in DOMAIN ERROR_MESSAGES}
        \cup {NETWORK_ERROR_MESSAGE}
        \cup (IF IsSome(statusCode)
              THEN {"An unexpected error occurred (" \o ToString(Get(statusCode)) \o ")"}
              ELSE {})

\* C27: the APIError handleAPIError returns carries one of the fixed
\* messages (status table, 'unexpected error (status)', network error),
\* never the raw text of the original error, which is kept in originalError.
C27_GenericMessageOnly ==
    IsSome(handled) =>
        /\ Get(handled).returned.message
              \in SafeMessages(Get(handled).returned.statusCode)
        /\ Get(handled).returned.originalError = Get(handled).error

(***************************************************************************)
(* Submission guard properties                                             *)
(***************************************************************************)
\* the rows this step adds to the submissions table
NewSubmissions == {submissions'[i] : i \in (Len(submissions) + 1)..Len(submissions')}

\* C28: no submission row is created for a hackathon whose stored status is
\* CLOSED: a createSubmission for it leaves the submissions table unchanged.
C28_NoSubmissionWhenClosed ==
    [][\A h \in HackathonIds :
          (IsSome(hackathons[h]) /\ Get(hackathons[h]).status = "CLOSED")
              => \A row \in NewSubmissions :
                    row.namespace # generateSubmissionNamespace(Some(<<h>>))]_vars

(***************************************************************************)
(* Auth-service properties                                                 *)
(***************************************************************************)
\* a login or signup has stored a token and no logout has removed it
LoggedIn == truthy(localStorage[TOKEN_KEY])
\* the browser asks for a page in this step
NavigatesTo(pathname) ==
    /\ request' # request
    /\ request' = Some([pathname |-> pathname, cookie |-> cookieJar[TOKEN_KEY],
                        authorization |-> None])
GuardedPath(pathname) ==
    \/ mwIsProtectedRoute(pathname)
    \/ requiresOrganizer(pathname)
    \/ requiresJudge(pathname)
    \/ requiresOrganizerForHackathon(pathname)

\* C29: while the user is logged in, a page request to a protected route
\* carries a token where the middleware looks for it and is not redirected
\* to /login.
C29_LoggedInNotRedirected ==
    [][\A pathname \in NavigatedPaths :
          (LoggedIn /\ NavigatesTo(pathname) /\ GuardedPath(pathname))
              => /\ truthy(requestToken(Get(request')))
                 /\ Get(response').kind # "redirect"]_vars

\* C30: one getCurrentUser call refreshes the token at most once and asks
\* /me at most twice, and a failed refresh leaves token, refresh token and
\* stored user all cleared.
C30_GetCurrentUserBounded ==
    authCall.fn = "getCurrentUser" =>
        /\ authCall.refreshes <= 1
        /\ authCall.meRequests <= 2
        /\ (authCall.pc = "thrown" /\ authCall.refreshFailed)
              => \A key \in {TOKEN_KEY, REFRESH_TOKEN_KEY, USER_KEY} :
                    localStorage[key] = None

\* the last part alone: a failed refresh clears the stored credentials
C30_FailedRefreshClears ==
    (authCall.fn = "getCurrentUser" /\ authCall.pc = "thrown" /\ authCall.refreshFailed)
        => \A key \in {TOKEN_KEY, REFRESH_TOKEN_KEY, USER_KEY} : localStorage[key] = None

====
